---- MODULE Spec2Model ----
(***************************************************************************)
(* SaltEngine scene editor: the undo/redo HistoryManager (util/history.ts), *)
(* the editor glue that commits snapshots (renderer/editor.ts), the canvas  *)
(* gesture state machine (renderer/components/canvas.ts) and the property   *)
(* panel (renderer/components/propertyPanel.ts).                            *)
(*                                                                         *)
(* Object graphs.  A scene list is a sequence of scenes, a scene is a       *)
(* record [id, gameObjects], a game object is a record                      *)
(* [id, type, position, rotation, scale].  A JavaScript number field that   *)
(* can become non-finite (scale = size / base size) is kept as a rational   *)
(* [n, d]: d = 0 is Infinity, and JsonNull is what JSON.stringify writes    *)
(* for it.  The identity of a graph (the array and everything below it) is  *)
(* a reference number: two holders with the same ref see each other's       *)
(* writes.                                                                  *)
(***************************************************************************)
EXTENDS Integers, Sequences, FiniteSets, TLC

\* ---------------------------------------------------------------- bounds
\* pushState calls allowed while the history is only being filled
MaxFill == 52
\* operations of any kind after the filling phase (HistSpec)
MaxOps == 4
\* pushState calls of the push-then-undo scenario (RunSpec)
MaxRun == 52
MaxEvents == 6
MaxPointerEvents == 3
MaxResizeEvents == 5
MaxPanelResizeEvents == 6
MaxDragEvents == 5
MaxViewEvents == 4
MaxRenderEvents == 5
MaxTabEvents == 4
MaxConversions == 3
MantissaBits == 11
MaxInFlight == 6

\* ------------------------------------------------------ program constants
maxHistorySize == 50

NoState == [ref |-> -1, scenes |-> <<>>, timestamp |-> -1]   \* null

VARIABLES
    undoStack,      \* HistoryManager.undoStack : Seq of [ref, scenes, timestamp]
    redoStack,      \* HistoryManager.redoStack
    ret,            \* what the last undo()/redo() returned (NoState = null)
    clock,          \* Date.now()
    live,           \* the caller's scene list: [ref, scenes]
    op,             \* the operation that produced this state
    budget,         \* operations left after the filling phase
    run,            \* the undo..redo run in progress: stacks at its start, counts
    scen,           \* the push-then-undo scenario: counts, first stored snapshot
    scenes,         \* editor.ts scenes : Map<string, Scene>, in insertion order;
                    \*   a scene is [id, gameObjects], gameObjects a Seq of object references
    objs,           \* the GameObject behind every reference still held by somebody
    activeSceneId,  \* editor.ts activeSceneId
    canvas,         \* the fields of the CanvasRenderer
    panelObj        \* the object the PropertyPanel shows (NoObj: "no selection")

histVars == <<undoStack, redoStack, ret, clock>>
callVars == <<live, run, scen>>
edVars == <<scenes, objs, activeSceneId, canvas, panelObj>>
vars == <<undoStack, redoStack, ret, clock, live, op, budget, run, scen,
          scenes, objs, activeSceneId, canvas, panelObj>>

\* ------------------------------------------------------------- JSON copy
Finite(q) == q.d # 0
JsonNull == [n |-> 0, d |-> 0]
One == [n |-> 1, d |-> 1]
Infinity == [n |-> 5, d |-> 0]
NaN == [n |-> 7, d |-> 0]

\* JSON.stringify writes null for a non-finite number; JSON.parse reads it back
JsonNumber(q) == IF Finite(q) THEN q ELSE JsonNull

\* a coordinate is a fixed-point number; these four, far outside the canvas,
\* stand for Infinity, -Infinity, NaN and null
CoordInfinity == 1000000000
CoordNegInfinity == -1000000000
CoordNaN == 2000000000
CoordNull == -2000000000
FiniteCoord(v) == v > CoordNegInfinity /\ v < CoordInfinity
JsonCoord(v) == IF FiniteCoord(v) THEN v ELSE CoordNull

JsonObject(o) ==
    [id |-> o.id, type |-> o.type,
     position |-> [x |-> JsonCoord(o.position.x), y |-> JsonCoord(o.position.y)],
     rotation |-> o.rotation,
     scale |-> [x |-> JsonNumber(o.scale.x), y |-> JsonNumber(o.scale.y)],
     layer |-> o.layer]

JsonLayer(l) == [id |-> l.id, visible |-> l.visible, locked |-> l.locked]

JsonScene(s) ==
    [id |-> s.id,
     layers |-> [i \in 1..Len(s.layers) |-> JsonLayer(s.layers[i])],
     gameObjects |-> [i \in 1..Len(s.gameObjects) |-> JsonObject(s.gameObjects[i])]]

JsonRoundTrip(list) == [i \in 1..Len(list) |-> JsonScene(list[i])]

\* references held by anybody
RefsOf(stack) == {stack[i].ref : i \in 1..Len(stack)}
UsedRefs == RefsOf(undoStack) \cup RefsOf(redoStack) \cup {ret.ref, live.ref}
FreshRef == CHOOSE r \in 0..(Cardinality(UsedRefs) + 1) : r \notin UsedRefs

\* a copy that hands back the same array
deepCopyScenes_shallow(g) == [ref |-> g.ref, scenes |-> g.scenes]

\* HistoryManager.deepCopyScenes: a new graph holding the JSON round trip
deepCopyScenes(g) == [ref |-> FreshRef, scenes |-> JsonRoundTrip(g.scenes)]

\* ------------------------------------------------------- HistoryManager
canUndo_any == Len(undoStack) > 0

canUndo == Len(undoStack) > 1
canRedo == Len(redoStack) > 0

Shift(s) == SubSeq(s, 2, Len(s))
Pop(s) == SubSeq(s, 1, Len(s) - 1)
Top(s) == s[Len(s)]

\* pushState that forgets to reset the redo stack
pushState_keepRedo(g) ==
    LET copy == deepCopyScenes(g)
        state == [ref |-> copy.ref, scenes |-> copy.scenes, timestamp |-> clock]
        pushed == Append(undoStack, state)
    IN  /\ undoStack' = IF Len(pushed) > maxHistorySize THEN Shift(pushed) ELSE pushed
        /\ redoStack' = redoStack
        /\ clock' = clock + 1
        /\ ret' = ret

\* pushState that evicts with pop() instead of shift()
pushState_popEvict(g) ==
    LET copy == deepCopyScenes(g)
        state == [ref |-> copy.ref, scenes |-> copy.scenes, timestamp |-> clock]
        pushed == Append(undoStack, state)
    IN  /\ undoStack' = IF Len(pushed) > maxHistorySize THEN Pop(pushed) ELSE pushed
        /\ redoStack' = <<>>
        /\ clock' = clock + 1
        /\ ret' = ret

pushState(g) ==
    LET copy == deepCopyScenes(g)
        state == [ref |-> copy.ref, scenes |-> copy.scenes, timestamp |-> clock]
        pushed == Append(undoStack, state)
    IN  /\ undoStack' = IF Len(pushed) > maxHistorySize THEN Shift(pushed) ELSE pushed
        /\ redoStack' = <<>>
        /\ clock' = clock + 1
        /\ ret' = ret

\* undo that returns the state it popped instead of the new top
undo_returnsPopped ==
    IF Len(undoStack) <= 1
    THEN /\ ret' = NoState
         /\ UNCHANGED <<undoStack, redoStack, clock>>
    ELSE LET currentState == Top(undoStack)
             copy == deepCopyScenes(currentState)
         IN  /\ undoStack' = Pop(undoStack)
             /\ redoStack' = Append(redoStack, currentState)
             /\ ret' = [ref |-> copy.ref, scenes |-> copy.scenes,
                        timestamp |-> currentState.timestamp]
             /\ clock' = clock

\* undo that drops the popped state instead of keeping it for redo
undo_dropsPopped ==
    IF Len(undoStack) <= 1
    THEN /\ ret' = NoState
         /\ UNCHANGED <<undoStack, redoStack, clock>>
    ELSE LET rest == Pop(undoStack)
             previousState == Top(rest)
             copy == deepCopyScenes(previousState)
         IN  /\ undoStack' = rest
             /\ redoStack' = redoStack
             /\ ret' = [ref |-> copy.ref, scenes |-> copy.scenes,
                        timestamp |-> previousState.timestamp]
             /\ clock' = clock

\* undo guarded by length = 0: it pops the last remaining state
undo_popLast ==
    IF Len(undoStack) = 0
    THEN /\ ret' = NoState
         /\ UNCHANGED <<undoStack, redoStack, clock>>
    ELSE LET currentState == Top(undoStack)
             rest == Pop(undoStack)
         IN  /\ undoStack' = rest
             /\ redoStack' = Append(redoStack, currentState)
             /\ ret' = IF Len(rest) = 0 THEN NoState
                       ELSE LET copy == deepCopyScenes(Top(rest))
                            IN  [ref |-> copy.ref, scenes |-> copy.scenes,
                                 timestamp |-> Top(rest).timestamp]
             /\ clock' = clock

undo ==
    IF Len(undoStack) <= 1
    THEN /\ ret' = NoState
         /\ UNCHANGED <<undoStack, redoStack, clock>>
    ELSE LET currentState == Top(undoStack)
             rest == Pop(undoStack)
             previousState == Top(rest)
             copy == deepCopyScenes(previousState)
         IN  /\ undoStack' = rest
             /\ redoStack' = Append(redoStack, currentState)
             /\ ret' = [ref |-> copy.ref, scenes |-> copy.scenes,
                        timestamp |-> previousState.timestamp]
             /\ clock' = clock

\* redo that takes the oldest undone state (shift) instead of the newest (pop)
redo_fifo ==
    IF Len(redoStack) = 0
    THEN /\ ret' = NoState
         /\ UNCHANGED <<undoStack, redoStack, clock>>
    ELSE LET state == redoStack[1]
             copy == deepCopyScenes(state)
         IN  /\ redoStack' = Shift(redoStack)
             /\ undoStack' = Append(undoStack, state)
             /\ ret' = [ref |-> copy.ref, scenes |-> copy.scenes,
                        timestamp |-> state.timestamp]
             /\ clock' = clock

redo ==
    IF Len(redoStack) = 0
    THEN /\ ret' = NoState
         /\ UNCHANGED <<undoStack, redoStack, clock>>
    ELSE LET state == Top(redoStack)
             copy == deepCopyScenes(state)
         IN  /\ redoStack' = Pop(redoStack)
             /\ undoStack' = Append(undoStack, state)
             /\ ret' = [ref |-> copy.ref, scenes |-> copy.scenes,
                        timestamp |-> state.timestamp]
             /\ clock' = clock

clear ==
    /\ undoStack' = <<>>
    /\ redoStack' = <<>>
    /\ UNCHANGED <<ret, clock>>

\* ------------------------------------------------------------ the caller
\* createScene: the layers of a scene made without options.layers
defaultLayers == << [id |-> 0, visible |-> TRUE, locked |-> FALSE] >>

\* a scene list with one scene holding one text object
SceneList(x, s) ==
    << [id |-> 1,
        layers |-> defaultLayers,
        gameObjects |-> << [id |-> 1, type |-> "text_display",
                            position |-> [x |-> x, y |-> 0],
                            rotation |-> 0,
                            scale |-> [x |-> s, y |-> One],
                            layer |-> 0] >>] >>

PosVals == {0, 1}
ScaleVals == {One, Infinity}

\* a write through reference r: every holder of that graph sees it
WriteStack(stack, r, v) ==
    [i \in 1..Len(stack) |->
        IF stack[i].ref = r THEN [stack[i] EXCEPT !.scenes = v] ELSE stack[i]]

WriteGraph(r, v) ==
    /\ live' = IF live.ref = r THEN [live EXCEPT !.scenes = v] ELSE live
    /\ ret' = IF ret.ref = r THEN [ret EXCEPT !.scenes = v] ELSE ret
    /\ undoStack' = WriteStack(undoStack, r, v)
    /\ redoStack' = WriteStack(redoStack, r, v)
    /\ clock' = clock

\* the editor is not part of this specification
NoEditor ==
    /\ scenes = <<>>
    /\ objs = <<>>
    /\ activeSceneId = -1
    /\ canvas = [selectedObjects |-> {}]
    /\ panelObj = -1

NoRun == [phase |-> "none", uBase |-> <<>>, rBase |-> <<>>, k |-> 0, j |-> 0]
NoScen == [pushes |-> 0, undos |-> 0, first |-> <<>>]

\* bookkeeping of "k undo() calls followed by k redo() calls"
RunAfterUndo ==
    IF Len(undoStack) <= 1 THEN NoRun
    ELSE IF run.phase = "undo" THEN [run EXCEPT !.k = run.k + 1]
    ELSE [phase |-> "undo", uBase |-> undoStack, rBase |-> redoStack, k |-> 1, j |-> 0]

RunAfterRedo ==
    IF Len(redoStack) = 0 \/ run.phase = "none" \/ run.j >= run.k THEN NoRun
    ELSE [run EXCEPT !.phase = "redo", !.j = run.j + 1]

Spend == budget > 0 /\ budget' = budget - 1

\* ------------------------------------------- HistSpec: HistoryManager API
HistInit ==
    /\ undoStack = <<>>
    /\ redoStack = <<>>
    /\ ret = NoState
    /\ clock = 0
    /\ live = [ref |-> 0, scenes |-> SceneList(0, One)]
    /\ op = "new"
    /\ budget = MaxOps
    /\ run = NoRun
    /\ scen = NoScen
    /\ NoEditor

\* pushState(scenes) while the history is only being filled
HFill ==
    /\ budget = MaxOps
    /\ clock < MaxFill
    /\ Len(redoStack) = 0
    /\ pushState(live)
    /\ op' = "pushState"
    /\ run' = NoRun
    /\ UNCHANGED <<live, budget, scen>>
    /\ UNCHANGED edVars

HPushState ==
    /\ Spend
    /\ pushState(live)
    /\ op' = "pushState"
    /\ run' = NoRun
    /\ UNCHANGED <<live, scen>>
    /\ UNCHANGED edVars

HUndo ==
    /\ Spend
    /\ undo
    /\ op' = "undo"
    /\ run' = RunAfterUndo
    /\ UNCHANGED <<live, scen>>
    /\ UNCHANGED edVars

HRedo ==
    /\ Spend
    /\ redo
    /\ op' = "redo"
    /\ run' = RunAfterRedo
    /\ UNCHANGED <<live, scen>>
    /\ UNCHANGED edVars

HClear ==
    /\ Spend
    /\ clear
    /\ op' = "clear"
    /\ run' = NoRun
    /\ UNCHANGED <<live, scen>>
    /\ UNCHANGED edVars

\* the caller edits its scene graph in place
HMutateLive ==
    /\ Spend
    /\ \E x \in PosVals, s \in ScaleVals :
          /\ SceneList(x, s) # live.scenes
          /\ WriteGraph(live.ref, SceneList(x, s))
    /\ op' = "mutateLive"
    /\ UNCHANGED <<run, scen>>
    /\ UNCHANGED edVars

\* the caller edits the state it got back from undo()/redo()
HMutateRet ==
    /\ Spend
    /\ ret # NoState
    /\ \E x \in PosVals, s \in ScaleVals :
          /\ SceneList(x, s) # ret.scenes
          /\ WriteGraph(ret.ref, SceneList(x, s))
    /\ op' = "mutateRet"
    /\ UNCHANGED <<run, scen>>
    /\ UNCHANGED edVars

HistNext == HFill \/ HPushState \/ HUndo \/ HRedo \/ HClear \/ HMutateLive \/ HMutateRet

HistSpec == HistInit /\ [][HistNext]_vars

\* =================================================================
\* The editor: renderer/editor.ts, components/canvas.ts, propertyPanel.ts
\* =================================================================
\* Coordinates are fixed-point numbers, Unit steps to the world unit; a division
\* that does not come out even rounds down at that resolution.  A pointer event
\* carries its position measured from the viewport centre, y upwards, and the
\* viewport shows one world unit per pixel (zoom 0.5).
Unit == 16
NoObj == -1

Abs(a) == IF a < 0 THEN -a ELSE a
Max(a, b) == IF a >= b THEN a ELSE b
Min(a, b) == IF a <= b THEN a ELSE b
Pt(x, y) == [x |-> x, y |-> y]
W(x, y) == [x |-> x * Unit, y |-> y * Unit]

RECURSIVE Gcd(_, _)
Gcd(a, b) == IF b = 0 THEN a ELSE Gcd(b, a % b)

\* the number n / d (d > 0), in lowest terms
Rat(n, d) == LET g == Gcd(Abs(n), d) IN [n |-> n \div g, d |-> d \div g]
\* b * q for a finite q
RatMul(b, q) == (b * q.n) \div q.d

\* Math.cos / Math.sin of a rotation in degrees (a multiple of 90)
Cos(deg) == CASE deg % 360 = 0 -> 1 [] deg % 360 = 90 -> 0
              [] deg % 360 = 180 -> -1 [] deg % 360 = 270 -> 0
Sin(deg) == CASE deg % 360 = 0 -> 0 [] deg % 360 = 90 -> 1
              [] deg % 360 = 180 -> 0 [] deg % 360 = 270 -> -1

\* ------------------------------------------------------------ editor.ts
SceneIndex(sc, id) ==
    IF \E i \in 1..Len(sc) : sc[i].id = id
    THEN CHOOSE i \in 1..Len(sc) : sc[i].id = id
    ELSE 0

\* getActiveScene(): index of the active scene in the map, 0 for null
getActiveScene == IF activeSceneId = -1 THEN 0 ELSE SceneIndex(scenes, activeSceneId)

\* Array.from(scenes.values()), the object references followed
SceneValues(sc, ob) ==
    [i \in 1..Len(sc) |->
        [id |-> sc[i].id,
         layers |-> sc[i].layers,
         gameObjects |-> [j \in 1..Len(sc[i].gameObjects) |-> ob[sc[i].gameObjects[j]]]]]

\* saveHistoryState() on the scene map sc
saveHistoryState(sc, ob) == pushState([ref |-> -2, scenes |-> SceneValues(sc, ob)])

\* every reference somebody still holds
HeldRefs(sc, sel, panel) ==
    UNION {{sc[i].gameObjects[j] : j \in 1..Len(sc[i].gameObjects)} : i \in 1..Len(sc)}
        \cup sel \cup ({panel} \ {NoObj})

\* the k-th reference (k >= 1) not in keep
NthFree(keep, k) ==
    CHOOSE r \in 0..(Cardinality(keep) + k) :
        r \notin keep /\ Cardinality({q \in 0..r : q \notin keep}) = k

\* the next state of the editor; objects nobody refers to any more are dropped
Editor(sc, ob, active, cv, panel) ==
    /\ scenes' = sc
    /\ activeSceneId' = active
    /\ canvas' = cv
    /\ panelObj' = panel
    /\ objs' = [o \in HeldRefs(sc, cv.selectedObjects, panel) |-> ob[o]]

\* ------------------------------------------------- components/canvas.ts
\* 12 / this.scale
handleSize == 24 * Unit

screenToWorld(s) == Pt(canvas.cameraOffset.x + s.x, canvas.cameraOffset.y + s.y)

getObjectBounds(obj, applyScale) ==
    LET baseWidth == IF obj.type = "text_display" THEN 100 * Unit ELSE 40 * Unit
        baseHeight == IF obj.type = "text_display" THEN 50 * Unit ELSE 40 * Unit
    IN  IF applyScale
        THEN [width |-> RatMul(baseWidth, obj.scale.x), height |-> RatMul(baseHeight, obj.scale.y)]
        ELSE [width |-> baseWidth, height |-> baseHeight]

\* the point p in the unrotated frame of obj
ToLocal(p, obj) ==
    LET dx == p.x - obj.position.x
        dy == p.y - obj.position.y
        c == Cos(obj.rotation)
        sn == Sin(obj.rotation)
    IN  Pt(dx * c + dy * sn, dy * c - dx * sn)

isPointInObject(p, obj) ==
    LET bounds == getObjectBounds(obj, TRUE)
        l == ToLocal(p, obj)
    IN  2 * Abs(l.x) <= bounds.width /\ 2 * Abs(l.y) <= bounds.height

\* a handle table without corners
getHandleType_edgesOnly(handleIndex) ==
    IF handleIndex % 2 = 1 THEN "horizontal" ELSE "vertical"

\* a handle table in which every handle is a corner
getHandleType_allCorners(handleIndex) == "corner"

getHandleType(handleIndex) ==
    IF handleIndex >= 0 /\ handleIndex <= 3 THEN "corner"
    ELSE IF handleIndex = 5 \/ handleIndex = 7 THEN "horizontal"
    ELSE IF handleIndex = 4 \/ handleIndex = 6 THEN "vertical"
    ELSE "corner"

\* is half of v2 less than handleSize = 12 / this.scale? (a canvas whose zoom
\* is not followed has the handleSize above)
NearHandle(v2) ==
    IF "scale" \in DOMAIN canvas
    THEN Abs(v2) * canvas.scale.n < 24 * Unit * canvas.scale.d
    ELSE Abs(v2) < 2 * handleSize

\* twice the local coordinates of the 8 handles of a w x h box (index + 1)
Handles2(w, h) ==
    << Pt(-w, -h), Pt(w, -h), Pt(w, h), Pt(-w, h),
       Pt(0, -h), Pt(w, 0), Pt(0, h), Pt(-w, 0) >>

\* getHandleAt: corners 0..3 first, then edges 4..7; -1 on a miss
getHandleAt(p, obj) ==
    LET bounds == getObjectBounds(obj, TRUE)
        l == ToLocal(p, obj)
        hs == Handles2(bounds.width, bounds.height)
        hdx2(i) == 2 * l.x - hs[i + 1].x
        hdy2(i) == 2 * l.y - hs[i + 1].y
        hit(i) ==
            IF i <= 3 THEN NearHandle(hdx2(i)) /\ NearHandle(hdy2(i))
            ELSE IF getHandleType(i) = "horizontal"
                 THEN NearHandle(hdx2(i)) /\ Abs(hdy2(i)) < bounds.height
                 ELSE Abs(hdx2(i)) < bounds.width /\ NearHandle(hdy2(i))
    IN  IF \E i \in 0..7 : hit(i) THEN CHOOSE i \in 0..7 : hit(i) /\ \A k \in 0..(i - 1) : ~hit(k)
        ELSE -1

\* a forward scan: the first object of the scene under p
HitObject_first(p) ==
    LET list == scenes[getActiveScene].gameObjects
        ins == {i \in 1..Len(list) : isPointInObject(p, objs[list[i]])}
    IN  IF ins = {} THEN NoObj ELSE list[CHOOSE i \in ins : \A k \in ins : k >= i]

\* the reverse scan of onMouseDown: the last object of the scene under p
HitObject(p) ==
    LET list == scenes[getActiveScene].gameObjects
        ins == {i \in 1..Len(list) : isPointInObject(p, objs[list[i]])}
    IN  IF ins = {} THEN NoObj ELSE list[CHOOSE i \in ins : \A k \in ins : k <= i]

\* a test that is content with any selected object
getSelectedObject_any(sel) == IF sel # {} THEN CHOOSE o \in sel : TRUE ELSE NoObj

\* getSelectedObject(): the selected object when exactly one is selected
getSelectedObject(sel) == IF Cardinality(sel) = 1 THEN CHOOSE o \in sel : TRUE ELSE NoObj

NewCanvas ==
    [selectedObjects |-> {}, isDragging |-> FALSE, isPanning |-> FALSE,
     isSelecting |-> FALSE, isResizing |-> FALSE, resizeHandle |-> -1,
     dragStart |-> Pt(0, 0), selectionStart |-> Pt(0, 0), cameraOffset |-> Pt(0, 0),
     initialScale |-> [x |-> One, y |-> One], initialPosition |-> Pt(0, 0)]

\* a gesture is in progress: one of the four mode flags of the canvas is set
InGesture ==
    canvas.isDragging \/ canvas.isResizing \/ canvas.isPanning \/ canvas.isSelecting

\* a selection that forgets what was selected even with the shift key held
Kept_never(shiftKey, sel) == {}

\* if (!e.shiftKey) this.selectedObjects.clear()
Kept(shiftKey, sel) == IF shiftKey THEN sel ELSE {}

\* a pointer-down that tries the objects before the handles
onMouseDown_objectFirst(button, shiftKey, s) ==
    LET worldPos == screenToWorld(s)
        sel == canvas.selectedObjects
        one == getSelectedObject(sel)
        handleIndex == IF one # NoObj THEN getHandleAt(worldPos, objs[one]) ELSE -1
        found == HitObject(worldPos)
        kept == Kept(shiftKey, sel)
    IN  IF getActiveScene = 0 THEN UNCHANGED edVars
        ELSE IF button = 2
        THEN Editor(scenes, objs, activeSceneId,
                    [canvas EXCEPT !.isPanning = TRUE, !.dragStart = s], panelObj)
        ELSE IF button # 0 THEN UNCHANGED edVars
        ELSE IF found # NoObj
        THEN Editor(scenes, objs, activeSceneId,
                    [canvas EXCEPT !.selectedObjects = kept \cup {found},
                                   !.isDragging = TRUE,
                                   !.dragStart = Pt(worldPos.x - objs[found].position.x,
                                                    worldPos.y - objs[found].position.y)],
                    getSelectedObject(kept \cup {found}))
        ELSE IF handleIndex >= 0
        THEN Editor(scenes, objs, activeSceneId,
                    [canvas EXCEPT !.isResizing = TRUE, !.resizeHandle = handleIndex,
                                   !.dragStart = worldPos,
                                   !.initialScale = objs[one].scale,
                                   !.initialPosition = objs[one].position], panelObj)
        ELSE Editor(scenes, objs, activeSceneId,
                    [canvas EXCEPT !.selectedObjects = kept, !.isSelecting = TRUE,
                                   !.selectionStart = s, !.dragStart = s],
                    getSelectedObject(kept))

\* onMouseDown; its onSelectionChanged() makes the panel show the single selection
onMouseDown(button, shiftKey, s) ==
    LET worldPos == screenToWorld(s)
        sel == canvas.selectedObjects
        one == getSelectedObject(sel)
        handleIndex == IF one # NoObj THEN getHandleAt(worldPos, objs[one]) ELSE -1
        found == HitObject(worldPos)
        kept == Kept(shiftKey, sel)
    IN  IF getActiveScene = 0 THEN UNCHANGED edVars
        ELSE IF button = 2
        THEN Editor(scenes, objs, activeSceneId,
                    [canvas EXCEPT !.isPanning = TRUE, !.dragStart = s], panelObj)
        ELSE IF button # 0 THEN UNCHANGED edVars
        ELSE IF handleIndex >= 0
        THEN Editor(scenes, objs, activeSceneId,
                    [canvas EXCEPT !.isResizing = TRUE, !.resizeHandle = handleIndex,
                                   !.dragStart = worldPos,
                                   !.initialScale = objs[one].scale,
                                   !.initialPosition = objs[one].position], panelObj)
        ELSE IF found # NoObj
        THEN Editor(scenes, objs, activeSceneId,
                    [canvas EXCEPT !.selectedObjects = kept \cup {found},
                                   !.isDragging = TRUE,
                                   !.dragStart = Pt(worldPos.x - objs[found].position.x,
                                                    worldPos.y - objs[found].position.y)],
                    getSelectedObject(kept \cup {found}))
        ELSE Editor(scenes, objs, activeSceneId,
                    [canvas EXCEPT !.selectedObjects = kept, !.isSelecting = TRUE,
                                   !.selectionStart = s, !.dragStart = s],
                    getSelectedObject(kept))

\* Math.floor in the place of Math.round
RoundTo_floor(x, g) == (x \div g) * g

\* Math.round(x / g) * g
RoundTo(x, g) == ((2 * x + g) \div (2 * g)) * g

gridSize == 50 * Unit
snapThreshold == 10 * Unit

\* the loop of snapToGridAndObjects over scene.gameObjects, from index i on
RECURSIVE SnapToObjects(_, _, _, _)
SnapToObjects(list, i, cur, r) ==
    IF i > Len(list) THEN r
    ELSE LET o == list[i]
             skip == objs[o].id = objs[cur].id \/ o \in canvas.selectedObjects
             nearX == Abs(r.x - objs[o].position.x) < snapThreshold
             nearY == Abs(r.y - objs[o].position.y) < snapThreshold
             r1 == IF ~skip /\ nearX
                   THEN [r EXCEPT !.x = objs[o].position.x, !.snapX = TRUE] ELSE r
             r2 == IF ~skip /\ nearY
                   THEN [r1 EXCEPT !.y = objs[o].position.y, !.snapY = TRUE] ELSE r1
         IN  SnapToObjects(list, i + 1, cur, r2)

\* snapToGridAndObjects(x, y, currentObj): [x, y] and whether each axis snapped
snapToGridAndObjects(x, y, cur) ==
    LET gridSnapX == RoundTo(x, gridSize)
        gridSnapY == RoundTo(y, gridSize)
        gx == Abs(x - gridSnapX) < snapThreshold
        gy == Abs(y - gridSnapY) < snapThreshold
        r0 == [x |-> IF gx THEN gridSnapX ELSE x, y |-> IF gy THEN gridSnapY ELSE y,
               snapX |-> gx, snapY |-> gy]
    IN  IF getActiveScene = 0 THEN [x |-> x, y |-> y, snapX |-> FALSE, snapY |-> FALSE]
        ELSE SnapToObjects(scenes[getActiveScene].gameObjects, 1, cur, r0)

minSize == 5 * Unit

\* an anchor table that pins the grabbed handle itself
OppositeHandle_same(handle) == handle

\* { 0: 2, 1: 3, 2: 0, 3: 1, 4: 6, 5: 7, 6: 4, 7: 5 }[this.resizeHandle]
OppositeHandle(handle) == <<2, 3, 0, 1, 6, 7, 4, 5>>[handle + 1]

\* a resize that moves the centre in alt mode too
NewPosition_moved(altKey, initialPosition, cx4, cy4, c, sn) ==
    Pt(initialPosition.x + ((cx4 * c - cy4 * sn) \div 4),
       initialPosition.y + ((cx4 * sn + cy4 * c) \div 4))

\* the position a resize move writes: the gesture-start position in alt mode,
\* else that position plus the new local centre (cx4, cy4: fourfold) rotated
\* into the world
NewPosition(altKey, initialPosition, cx4, cy4, c, sn) ==
    IF altKey THEN initialPosition
    ELSE Pt(initialPosition.x + ((cx4 * c - cy4 * sn) \div 4),
            initialPosition.y + ((cx4 * sn + cy4 * c) \div 4))

\* the resize branch of onMouseMove: the new position and scale of obj, always
\* from the snapshot taken at pointer-down.  Sizes are carried doubled (w2, h2)
\* and the new centre fourfold, so that halving happens once, at the end.
ResizeMove(obj, initialPosition, initialScale, handle, worldPos, altKey, shiftKey) ==
    LET base == getObjectBounds(obj, FALSE)
        initialWidth == RatMul(base.width, initialScale.x)
        initialHeight == RatMul(base.height, initialScale.y)
        anchor2 == IF altKey THEN Pt(0, 0)
                   ELSE Handles2(initialWidth, initialHeight)[OppositeHandle(handle) + 1]
        c == Cos(obj.rotation)
        sn == Sin(obj.rotation)
        mx == worldPos.x - initialPosition.x
        my == worldPos.y - initialPosition.y
        rx == mx * c + my * sn
        ry == my * c - mx * sn
        handleType == getHandleType(handle)
        w2a == IF altKey
               THEN (IF handleType = "vertical" THEN 2 * initialWidth ELSE 4 * Abs(rx))
               ELSE (IF handleType = "vertical" THEN 2 * initialWidth ELSE 2 * rx - anchor2.x)
        h2a == IF altKey
               THEN (IF handleType = "horizontal" THEN 2 * initialHeight ELSE 4 * Abs(ry))
               ELSE (IF handleType = "horizontal" THEN 2 * initialHeight ELSE 2 * ry - anchor2.y)
        uniform == handleType = "corner" /\ shiftKey
        wider == Abs(w2a) * initialHeight > initialWidth * Abs(h2a)
        sgn(v) == IF v < 0 THEN -1 ELSE 1
        \* an initial size of 0 makes aspectRatio 0, Infinity or NaN (0 / 0):
        \* Math.abs(newHeightLocal) * aspectRatio is then NaN or +-Infinity,
        \* Math.abs(newWidthLocal) / aspectRatio is +-Infinity
        kindW == IF uniform /\ ~wider /\ initialHeight = 0
                 THEN (IF initialWidth = 0 \/ h2a = 0 THEN "NaN" ELSE "Infinity")
                 ELSE "finite"
        kindH == IF uniform /\ wider /\ initialWidth = 0 THEN "Infinity" ELSE "finite"
        w2 == IF kindW # "finite" THEN 0
              ELSE IF uniform /\ ~wider
              THEN ((Abs(h2a) * initialWidth) \div initialHeight) * sgn(w2a) ELSE w2a
        h2 == IF kindH # "finite" THEN 0
              ELSE IF uniform /\ wider
              THEN ((Abs(w2a) * initialHeight) \div initialWidth) * sgn(h2a) ELSE h2a
        absW2 == Max(2 * minSize, Abs(w2))
        absH2 == Max(2 * minSize, Abs(h2))
        cx4 == IF handleType = "vertical" THEN 0 ELSE 2 * anchor2.x + absW2 * sgn(w2)
        cy4 == IF handleType = "horizontal" THEN 0 ELSE 2 * anchor2.y + absH2 * sgn(h2)
        \* Math.max(minSize, NaN) is NaN, Math.max(minSize, Infinity) is Infinity
        scaleX == CASE kindW = "NaN" -> NaN [] kindW = "Infinity" -> Infinity
                    [] OTHER -> Rat(absW2, 2 * base.width)
        scaleY == IF kindH = "Infinity" THEN Infinity ELSE Rat(absH2, 2 * base.height)
        \* the new centre with a side that is not finite, for an unrotated
        \* object (cos = 1, sin = 0): Infinity * 0 is NaN, and so is NaN + x
        signed(v) == IF v < 0 THEN CoordNegInfinity ELSE CoordInfinity
        lost == IF kindW = "NaN" THEN Pt(CoordNaN, CoordNaN)
                ELSE IF kindW = "Infinity" THEN Pt(signed(w2a), CoordNaN)
                ELSE Pt(CoordNaN, signed(h2a))
    IN  [scale |-> [x |-> scaleX, y |-> scaleY],
         position |-> IF altKey \/ (kindW = "finite" /\ kindH = "finite")
                      THEN NewPosition(altKey, initialPosition, cx4, cy4, c, sn)
                      ELSE lost]

\* a move handler that resizes from the object as the last move left it
onMouseMove_incremental(s, altKey, shiftKey) ==
    LET worldPos == screenToWorld(s)
        sel == canvas.selectedObjects
        one == getSelectedObject(sel)
    IN  IF canvas.isResizing /\ one # NoObj
        THEN LET r == ResizeMove(objs[one], objs[one].position, objs[one].scale,
                                 canvas.resizeHandle, worldPos, altKey, shiftKey)
             IN  Editor(scenes,
                        [objs EXCEPT ![one].scale = r.scale, ![one].position = r.position],
                        activeSceneId, canvas, one)
        ELSE IF canvas.isPanning
        THEN Editor(scenes, objs, activeSceneId,
                    [canvas EXCEPT
                        !.cameraOffset = Pt(canvas.cameraOffset.x - (s.x - canvas.dragStart.x),
                                            canvas.cameraOffset.y - (s.y - canvas.dragStart.y)),
                        !.dragStart = s], panelObj)
        ELSE IF canvas.isSelecting
        THEN Editor(scenes, objs, activeSceneId, [canvas EXCEPT !.dragStart = s], panelObj)
        ELSE IF canvas.isDragging /\ sel # {} /\ getActiveScene # 0
        THEN LET targetX == worldPos.x - canvas.dragStart.x
                 targetY == worldPos.y - canvas.dragStart.y
                 snapped(o) == snapToGridAndObjects(targetX, targetY, o)
             IN  Editor(scenes,
                        [o \in DOMAIN objs |->
                            IF o \in sel
                            THEN [objs[o] EXCEPT !.position = Pt(snapped(o).x, snapped(o).y)]
                            ELSE objs[o]],
                        activeSceneId, canvas, one)
        ELSE UNCHANGED edVars

onMouseMove(s, altKey, shiftKey) ==
    LET worldPos == screenToWorld(s)
        sel == canvas.selectedObjects
        one == getSelectedObject(sel)
    IN  IF canvas.isResizing /\ one # NoObj
        THEN LET r == ResizeMove(objs[one], canvas.initialPosition, canvas.initialScale,
                                 canvas.resizeHandle, worldPos, altKey, shiftKey)
             IN  Editor(scenes,
                        [objs EXCEPT ![one].scale = r.scale, ![one].position = r.position],
                        activeSceneId, canvas, one)
        ELSE IF canvas.isPanning
        THEN Editor(scenes, objs, activeSceneId,
                    [canvas EXCEPT
                        !.cameraOffset = Pt(canvas.cameraOffset.x - (s.x - canvas.dragStart.x),
                                            canvas.cameraOffset.y - (s.y - canvas.dragStart.y)),
                        !.dragStart = s], panelObj)
        ELSE IF canvas.isSelecting
        THEN Editor(scenes, objs, activeSceneId, [canvas EXCEPT !.dragStart = s], panelObj)
        ELSE IF canvas.isDragging /\ sel # {} /\ getActiveScene # 0
        THEN LET targetX == worldPos.x - canvas.dragStart.x
                 targetY == worldPos.y - canvas.dragStart.y
                 snapped(o) == snapToGridAndObjects(targetX, targetY, o)
             IN  Editor(scenes,
                        [o \in DOMAIN objs |->
                            IF o \in sel
                            THEN [objs[o] EXCEPT !.position = Pt(snapped(o).x, snapped(o).y)]
                            ELSE objs[o]],
                        activeSceneId, canvas, one)
        ELSE UNCHANGED edVars

\* a marquee that takes every object whose (unrotated) bounds touch it
MarqueeHits_overlap ==
    LET startWorld == screenToWorld(canvas.selectionStart)
        endWorld == screenToWorld(canvas.dragStart)
        minX == Min(startWorld.x, endWorld.x)
        maxX == Max(startWorld.x, endWorld.x)
        minY == Min(startWorld.y, endWorld.y)
        maxY == Max(startWorld.y, endWorld.y)
        list == IF getActiveScene = 0 THEN <<>> ELSE scenes[getActiveScene].gameObjects
        b(k) == getObjectBounds(objs[list[k]], TRUE)
    IN  {list[i] : i \in {k \in 1..Len(list) :
            /\ 2 * objs[list[k]].position.x + b(k).width >= 2 * minX
            /\ 2 * objs[list[k]].position.x - b(k).width <= 2 * maxX
            /\ 2 * objs[list[k]].position.y + b(k).height >= 2 * minY
            /\ 2 * objs[list[k]].position.y - b(k).height <= 2 * maxY}}

\* the objects of the active scene whose position lies in the marquee
MarqueeHits ==
    LET startWorld == screenToWorld(canvas.selectionStart)
        endWorld == screenToWorld(canvas.dragStart)
        minX == Min(startWorld.x, endWorld.x)
        maxX == Max(startWorld.x, endWorld.x)
        minY == Min(startWorld.y, endWorld.y)
        maxY == Max(startWorld.y, endWorld.y)
        list == IF getActiveScene = 0 THEN <<>> ELSE scenes[getActiveScene].gameObjects
    IN  {list[i] : i \in {k \in 1..Len(list) :
            /\ objs[list[k]].position.x >= minX /\ objs[list[k]].position.x <= maxX
            /\ objs[list[k]].position.y >= minY /\ objs[list[k]].position.y <= maxY}}

\* what onMouseUp leaves of the canvas
Released(sel) ==
    [canvas EXCEPT !.selectedObjects = sel,
                   !.isDragging = FALSE, !.isPanning = FALSE, !.isSelecting = FALSE,
                   !.isResizing = FALSE, !.resizeHandle = -1,
                   !.initialScale = [x |-> One, y |-> One], !.initialPosition = Pt(0, 0)]

\* does onMouseUp dispatch "object-position-changed"?
CommitsOnRelease(cv, sel) == (cv.isDragging \/ cv.isResizing) /\ sel # {}

\* a release that dispatches "object-position-changed" whatever the gesture
onMouseUp_always ==
    LET sel == IF canvas.isSelecting THEN canvas.selectedObjects \cup MarqueeHits
               ELSE canvas.selectedObjects
    IN  /\ Editor(scenes, objs, activeSceneId, Released(sel), panelObj)
        /\ saveHistoryState(scenes, objs)

\* onMouseUp, with the editor's "object-position-changed" listener
onMouseUp ==
    LET sel == IF canvas.isSelecting THEN canvas.selectedObjects \cup MarqueeHits
               ELSE canvas.selectedObjects
    IN  /\ Editor(scenes, objs, activeSceneId, Released(sel), panelObj)
        /\ IF CommitsOnRelease(canvas, sel)
           THEN saveHistoryState(scenes, objs)
           ELSE UNCHANGED histVars

\* Array.prototype.splice of every member of gone out of list
RECURSIVE Without(_, _)
Without(list, gone) ==
    IF list = <<>> THEN <<>>
    ELSE IF Head(list) \in gone THEN Without(Tail(list), gone)
    ELSE <<Head(list)>> \o Without(Tail(list), gone)

\* onKeyDown (Delete / Backspace) and deleteSelectedObjects
onKeyDelete ==
    IF canvas.selectedObjects = {} \/ getActiveScene = 0
    THEN UNCHANGED <<edVars, histVars>>
    ELSE LET sc == [scenes EXCEPT ![getActiveScene].gameObjects =
                        Without(scenes[getActiveScene].gameObjects, canvas.selectedObjects)]
         IN  /\ Editor(sc, objs, activeSceneId, [canvas EXCEPT !.selectedObjects = {}], NoObj)
             /\ saveHistoryState(sc, objs)

\* ------------------------------------------- components/propertyPanel.ts
\* what the user types into the Transform inputs of the panel
PanelEdits ==
    { [field |-> "x", value |-> 60 * Unit],
      [field |-> "rotation", value |-> 90],
      [field |-> "scaleX", value |-> [n |-> 2, d |-> 1]] }

\* the onChange callbacks of showObjectProperties' Transform group
WriteField(obj, e) ==
    CASE e.field = "x" -> [obj EXCEPT !.position.x = e.value]
      [] e.field = "rotation" -> [obj EXCEPT !.rotation = e.value]
      [] e.field = "scaleX" -> [obj EXCEPT !.scale.x = e.value]
      [] e.field = "scaleY" -> [obj EXCEPT !.scale.y = e.value]

\* an "input" event of a panel field: the callback writes through the shared
\* reference, notifyPropertyChanged() dispatches "property-changed", and the
\* editor's listener re-renders and shows the single selection, if any
onPropertyChanged(e) ==
    LET ob == [objs EXCEPT ![panelObj] = WriteField(objs[panelObj], e)]
        selectedObj == getSelectedObject(canvas.selectedObjects)
    IN  /\ Editor(scenes, ob, activeSceneId, canvas,
                  IF selectedObj # NoObj THEN selectedObj ELSE panelObj)
        /\ UNCHANGED histVars

\* the panel's delete button and the editor's "delete-object" listener
onDeleteObject ==
    LET list == IF getActiveScene = 0 THEN <<>> ELSE scenes[getActiveScene].gameObjects
    IN  IF \E i \in 1..Len(list) : list[i] = panelObj
        THEN LET sc == [scenes EXCEPT ![getActiveScene].gameObjects =
                            Without(list, {panelObj})]
             IN  /\ Editor(sc, objs, activeSceneId, canvas, NoObj)
                 /\ saveHistoryState(sc, objs)
        ELSE UNCHANGED <<edVars, histVars>>

\* ------------------------------------------------------------ editor.ts
\* new TextDisplayObject(`text-${Date.now()}`, {x: 0, y: 0})
TextDisplayObject(id) ==
    [id |-> id, type |-> "text_display", position |-> Pt(0, 0), rotation |-> 0,
     scale |-> [x |-> One, y |-> One], layer |-> 0]

\* the click listener of addTextDisplayBtn
onAddTextDisplay ==
    IF getActiveScene = 0 THEN UNCHANGED <<edVars, histVars>>
    ELSE LET o == NthFree(DOMAIN objs, 1)
             ob == [q \in DOMAIN objs \cup {o} |->
                        IF q = o THEN TextDisplayObject(clock) ELSE objs[q]]
             sc == [scenes EXCEPT ![getActiveScene].gameObjects = Append(@, o)]
         IN  /\ Editor(sc, ob, activeSceneId, canvas, panelObj)
             /\ saveHistoryState(sc, ob)

\* the number of objects in the scenes before scene i of list
RECURSIVE Offset(_, _)
Offset(list, i) == IF i <= 1 THEN 0 ELSE Offset(list, i - 1) + Len(list[i - 1].gameObjects)

\* applyHistoryState(state): the scene map is rebuilt from the objects of the
\* returned copy; the canvas selection and the panel keep what they held
applyHistoryState(state) ==
    LET keep == canvas.selectedObjects \cup ({panelObj} \ {NoObj})
        list == state.scenes
        ref(i, j) == NthFree(keep, Offset(list, i) + j)
        sc == [i \in 1..Len(list) |->
                 [id |-> list[i].id,
                  layers |-> list[i].layers,
                  gameObjects |-> [j \in 1..Len(list[i].gameObjects) |-> ref(i, j)]]]
        pairs == {q \in (1..Len(list)) \X (1..Offset(list, Len(list) + 1)) :
                    q[2] <= Len(list[q[1]].gameObjects)}
        new == {ref(q[1], q[2]) : q \in pairs}
        at(o) == CHOOSE q \in pairs : ref(q[1], q[2]) = o
        ob == [o \in keep \cup new |->
                 IF o \in keep THEN objs[o] ELSE list[at(o)[1]].gameObjects[at(o)[2]]]
    IN  Editor(sc, ob,
               IF Len(sc) > 0 THEN sc[1].id ELSE activeSceneId, canvas, panelObj)

performUndo ==
    IF ~canUndo THEN UNCHANGED <<edVars, histVars>>
    ELSE /\ undo
         /\ applyHistoryState(ret')

performRedo ==
    IF ~canRedo THEN UNCHANGED <<edVars, histVars>>
    ELSE /\ redo
         /\ applyHistoryState(ret')

\* ------------------------------------ EditorSpec: the editor's handlers
\* where the pointer can be: the middle of a new text object, a point near a
\* grid line to its right, and a point on its bottom left resize handle
ScreenPts == {Pt(0, 0), Pt(147 * Unit, 5 * Unit), Pt(-60 * Unit, -30 * Unit)}

\* the editor after DOMContentLoaded with no project: addNewScene() has made
\* one empty scene, activated it and saved the first history state
EditorInit ==
    /\ scenes = << [id |-> 0, layers |-> defaultLayers, gameObjects |-> <<>>] >>
    /\ objs = <<>>
    /\ activeSceneId = 0
    /\ canvas = NewCanvas
    /\ panelObj = NoObj
    /\ undoStack = << [ref |-> 1, scenes |-> << [id |-> 0, layers |-> defaultLayers, gameObjects |-> <<>>] >>,
                       timestamp |-> 0] >>
    /\ redoStack = <<>>
    /\ ret = NoState
    /\ clock = 1
    /\ live = [ref |-> 0, scenes |-> <<>>]
    /\ op = "init"
    /\ budget = MaxEvents
    /\ run = NoRun
    /\ scen = NoScen

\* one event of the browser: scen records how many pushState calls the handler
\* made and the scenes it found
Event(name) ==
    /\ Spend
    /\ op' = name
    /\ scen' = [pushes |-> clock' - clock, undos |-> 0, first |-> SceneValues(scenes, objs)]
    /\ UNCHANGED <<live, run>>

EMouseDown ==
    /\ \E button \in {0, 2}, shiftKey \in BOOLEAN, s \in ScreenPts :
          onMouseDown(button, shiftKey, s)
    /\ UNCHANGED histVars
    /\ Event("mouseDown")

EMouseMove ==
    /\ \E s \in ScreenPts, altKey \in BOOLEAN, shiftKey \in BOOLEAN :
          onMouseMove(s, altKey, shiftKey)
    /\ UNCHANGED histVars
    /\ Event("mouseMove")

EMouseUp ==
    /\ onMouseUp
    /\ Event("mouseUp")

EKeyDelete ==
    /\ onKeyDelete
    /\ Event("keyDelete")

EPropertyEdit ==
    /\ panelObj # NoObj
    /\ \E e \in PanelEdits :
          /\ WriteField(objs[panelObj], e) # objs[panelObj]
          /\ onPropertyChanged(e)
    /\ Event("propertyEdit")

EDeleteButton ==
    /\ panelObj # NoObj
    /\ onDeleteObject
    /\ Event("deleteButton")

EAddTextDisplay ==
    /\ onAddTextDisplay
    /\ Event("addTextDisplay")

EUndo ==
    /\ performUndo
    /\ Event("undo")

ERedo ==
    /\ performRedo
    /\ Event("redo")

EditorNext ==
    \/ EMouseDown
    \/ EMouseMove
    \/ EMouseUp
    \/ EKeyDelete
    \/ EPropertyEdit
    \/ EDeleteButton
    \/ EAddTextDisplay
    \/ EUndo
    \/ ERedo

EditorSpec == EditorInit /\ [][EditorNext]_vars

\* ------------------------- CanvasSpec: pointer events on a loaded project
\* the objects of the project's scene, in insertion order: two overlapping
\* text objects, the first on layer 1, and an asset to their right
ProjectObjects ==
    << [id |-> 101, type |-> "text_display", position |-> W(0, 0), rotation |-> 0,
        scale |-> [x |-> One, y |-> One], layer |-> 1],
       [id |-> 102, type |-> "text_display", position |-> W(20, 0), rotation |-> 0,
        scale |-> [x |-> One, y |-> One], layer |-> 0],
       [id |-> 103, type |-> "asset", position |-> W(60, 0), rotation |-> 0,
        scale |-> [x |-> One, y |-> One], layer |-> 0] >>

\* the scenes of a project file whose second layer is visible / locked as given
ProjectScenes(visible, locked) ==
    << [id |-> 0,
        layers |-> << [id |-> 0, visible |-> TRUE, locked |-> FALSE],
                      [id |-> 1, visible |-> visible, locked |-> locked] >>,
        gameObjects |-> ProjectObjects] >>

\* where the pointer can be: below both text objects (on a handle of either
\* when it is the single selection), inside all three objects, inside the two
\* text objects, and inside the first text object only
CanvasPts == {W(-10, -30), W(45, 0), W(20, 0), W(-40, 0)}

\* the editor after DOMContentLoaded with a project: setProject() has cleared
\* the history and saved the scenes, and the handler has saved them once more
CanvasInit ==
    /\ \E visible \in BOOLEAN, locked \in BOOLEAN :
          LET list == ProjectScenes(visible, locked)
          IN  /\ scenes = << [id |-> 0, layers |-> list[1].layers, gameObjects |-> <<0, 1, 2>>] >>
              /\ objs = [o \in 0..2 |-> ProjectObjects[o + 1]]
              /\ undoStack = << [ref |-> 1, scenes |-> JsonRoundTrip(list), timestamp |-> 0],
                                [ref |-> 2, scenes |-> JsonRoundTrip(list), timestamp |-> 1] >>
    /\ activeSceneId = 0
    /\ canvas = NewCanvas
    /\ panelObj = NoObj
    /\ redoStack = <<>>
    /\ ret = NoState
    /\ clock = 2
    /\ live = [ref |-> 0, scenes |-> <<>>]
    /\ op = "init"
    /\ budget = MaxPointerEvents
    /\ run = NoRun
    /\ scen = NoScen

\* the MouseEvent a handler was called with
Input(button, shiftKey, altKey, s) ==
    [phase |-> "input", button |-> button, shiftKey |-> shiftKey, altKey |-> altKey, s |-> s]

\* one pointer event: run records the MouseEvent, scen the pushState calls made
PointerEvent(name, input) ==
    /\ Spend
    /\ op' = name
    /\ run' = input
    /\ scen' = [pushes |-> clock' - clock, undos |-> 0, first |-> SceneValues(scenes, objs)]
    /\ UNCHANGED live

CMouseDown ==
    \E button \in {0, 2}, shiftKey \in BOOLEAN, s \in CanvasPts :
        /\ onMouseDown(button, shiftKey, s)
        /\ UNCHANGED histVars
        /\ PointerEvent("mouseDown", Input(button, shiftKey, FALSE, s))

CMouseMove ==
    \E s \in CanvasPts, altKey \in BOOLEAN, shiftKey \in BOOLEAN :
        /\ onMouseMove(s, altKey, shiftKey)
        /\ UNCHANGED histVars
        /\ PointerEvent("mouseMove", Input(-1, shiftKey, altKey, s))

CMouseUp ==
    /\ onMouseUp
    /\ PointerEvent("mouseUp", NoRun)

CanvasNext == CMouseDown \/ CMouseMove \/ CMouseUp

CanvasSpec == CanvasInit /\ [][CanvasNext]_vars

\* ------------------------------- ResizeSpec: one resize gesture, any handle
\* the object of the project: a text object, or an asset twice its base size
ResizeObject(type, rotation) ==
    [id |-> 101, type |-> type, position |-> W(10, 20), rotation |-> rotation,
     scale |-> IF type = "asset" THEN [x |-> [n |-> 2, d |-> 1], y |-> [n |-> 2, d |-> 1]]
               ELSE [x |-> One, y |-> One],
     layer |-> 0]

Rotations == {0, 90, 180, 270}

\* twice the width and height of the box of obj
Size2(obj) ==
    [width |-> (2 * getObjectBounds(obj, FALSE).width * obj.scale.x.n) \div obj.scale.x.d,
     height |-> (2 * getObjectBounds(obj, FALSE).height * obj.scale.y.n) \div obj.scale.y.d]

\* four times the world position of handle k of the box of obj
Handle4(obj, k) ==
    LET l == Handles2(Size2(obj).width, Size2(obj).height)[k + 1]
        c == Cos(obj.rotation)
        sn == Sin(obj.rotation)
    IN  Pt(4 * obj.position.x + l.x * c - l.y * sn, 4 * obj.position.y + l.x * sn + l.y * c)

\* the handle across the box from handle h: the diagonally opposite corner, or
\* the midpoint of the opposite edge (0..3: BL, BR, TR, TL; 4..7: B, R, T, L)
Across(h) == IF h <= 3 THEN (h + 2) % 4 ELSE 4 + ((h - 2) % 4)

\* where the pointer goes during the resize: beyond the box on either side, on
\* the middle of the object and on the top right corner of the text object
ResizePts == {W(100, 60), W(-70, -40), W(10, 20), W(60, 45)}

ResizeInit ==
    /\ \E type \in {"text_display", "asset"}, rotation \in Rotations :
          LET list == << [id |-> 0, layers |-> defaultLayers,
                          gameObjects |-> << ResizeObject(type, rotation) >>] >>
          IN  /\ scenes = << [id |-> 0, layers |-> defaultLayers, gameObjects |-> <<0>>] >>
              /\ objs = [o \in {0} |-> ResizeObject(type, rotation)]
              /\ undoStack = << [ref |-> 1, scenes |-> JsonRoundTrip(list), timestamp |-> 0],
                                [ref |-> 2, scenes |-> JsonRoundTrip(list), timestamp |-> 1] >>
    /\ activeSceneId = 0
    /\ canvas = NewCanvas
    /\ panelObj = NoObj
    /\ redoStack = <<>>
    /\ ret = NoState
    /\ clock = 2
    /\ live = [ref |-> 0, scenes |-> <<>>]
    /\ op = "init"
    /\ budget = MaxResizeEvents
    /\ run = [phase |-> "loaded"]
    /\ scen = NoScen

\* one event of the gesture; scen as in Event
ResizeEvent(name) ==
    /\ Spend
    /\ op' = name
    /\ scen' = [pushes |-> clock' - clock, undos |-> 0, first |-> SceneValues(scenes, objs)]
    /\ UNCHANGED live

\* a click on the middle of the object selects it
RSelect ==
    /\ run.phase = "loaded"
    /\ onMouseDown(0, FALSE, objs[0].position)
    /\ UNCHANGED histVars
    /\ run' = [phase |-> "pressed"]
    /\ ResizeEvent("mouseDown")

RRelease ==
    /\ run.phase \in {"pressed", "resizing"}
    /\ onMouseUp
    /\ run' = [phase |-> "selected"]
    /\ ResizeEvent("mouseUp")

\* the primary button goes down on handle h of the selected object; run keeps
\* where the object and the handle opposite to h are at that moment
RGrab ==
    \E h \in 0..7 :
        LET obj == objs[getSelectedObject(canvas.selectedObjects)]
            s == Pt(Handle4(obj, h).x \div 4 - canvas.cameraOffset.x,
                    Handle4(obj, h).y \div 4 - canvas.cameraOffset.y)
        IN  /\ run.phase = "selected"
            /\ getHandleAt(screenToWorld(s), obj) = h
            /\ onMouseDown(0, FALSE, s)
            /\ UNCHANGED histVars
            /\ run' = [phase |-> "resizing", handle |-> h, position |-> obj.position,
                       pivot4 |-> Handle4(obj, Across(h)),
                       moved |-> FALSE, altKey |-> FALSE, shiftKey |-> FALSE, s |-> s]
            /\ ResizeEvent("mouseDown")

RMove ==
    \E s \in ResizePts, altKey \in BOOLEAN, shiftKey \in BOOLEAN :
        /\ run.phase = "resizing"
        /\ onMouseMove(s, altKey, shiftKey)
        /\ UNCHANGED histVars
        /\ run' = [run EXCEPT !.moved = TRUE, !.altKey = altKey, !.shiftKey = shiftKey, !.s = s]
        /\ ResizeEvent("mouseMove")

ResizeNext == RSelect \/ RRelease \/ RGrab \/ RMove

ResizeSpec == ResizeInit /\ [][ResizeNext]_vars

\* ------- PanelResizeSpec: a resize of an object whose scale the panel has set
\* parseFloat(input.value) || 0 of what is typed into Scale X / Scale Y: "0"
\* (also the first keystroke of "0.5", every keystroke being an "input" event,
\* and what an emptied field gives) and "0.5"
ScaleEdits ==
    { [field |-> "scaleX", value |-> [n |-> 0, d |-> 1]],
      [field |-> "scaleY", value |-> [n |-> 0, d |-> 1]],
      [field |-> "scaleY", value |-> [n |-> 1, d |-> 2]] }

\* the project: one unrotated text object
PanelResizeInit ==
    /\ LET list == << [id |-> 0, layers |-> defaultLayers,
                       gameObjects |-> << ResizeObject("text_display", 0) >>] >>
       IN  /\ scenes = << [id |-> 0, layers |-> defaultLayers, gameObjects |-> <<0>>] >>
           /\ objs = [o \in {0} |-> ResizeObject("text_display", 0)]
           /\ undoStack = << [ref |-> 1, scenes |-> JsonRoundTrip(list), timestamp |-> 0],
                             [ref |-> 2, scenes |-> JsonRoundTrip(list), timestamp |-> 1] >>
    /\ activeSceneId = 0
    /\ canvas = NewCanvas
    /\ panelObj = NoObj
    /\ redoStack = <<>>
    /\ ret = NoState
    /\ clock = 2
    /\ live = [ref |-> 0, scenes |-> <<>>]
    /\ op = "init"
    /\ budget = MaxPanelResizeEvents
    /\ run = [phase |-> "loaded"]
    /\ scen = NoScen

\* a value is typed into a Scale field of the panel while the object is selected
PEdit ==
    \E e \in ScaleEdits :
        /\ run.phase = "selected"
        /\ panelObj # NoObj
        /\ onPropertyChanged(e)
        /\ UNCHANGED run
        /\ ResizeEvent("propertyEdit")

\* a handle is grabbed as in RGrab; the model does not follow a second
\* gesture on an object whose position or scale is not a finite number
PGrab ==
    /\ FiniteCoord(objs[0].position.x) /\ FiniteCoord(objs[0].position.y)
    /\ Finite(objs[0].scale.x) /\ Finite(objs[0].scale.y)
    /\ RGrab

PanelResizeNext == RSelect \/ RRelease \/ PEdit \/ PGrab \/ RMove

PanelResizeSpec == PanelResizeInit /\ [][PanelResizeNext]_vars

\* -------- EdgeSpec: resizes of a small object on a canvas zoomed in to 5.0
\* what is typed into Scale X / Scale Y: values that make a side of the text
\* object 4.875 units long, and 1.5
EdgeEdits ==
    { [field |-> "scaleX", value |-> [n |-> 39, d |-> 800]],
      [field |-> "scaleY", value |-> [n |-> 39, d |-> 400]],
      [field |-> "scaleX", value |-> [n |-> 3, d |-> 2]],
      [field |-> "scaleY", value |-> [n |-> 3, d |-> 2]] }

\* the project of PanelResizeSpec after wheel events have taken the zoom to
\* its upper limit
EdgeInit ==
    /\ LET list == << [id |-> 0, layers |-> defaultLayers,
                       gameObjects |-> << ResizeObject("text_display", 0) >>] >>
       IN  /\ scenes = << [id |-> 0, layers |-> defaultLayers, gameObjects |-> <<0>>] >>
           /\ objs = [o \in {0} |-> ResizeObject("text_display", 0)]
           /\ undoStack = << [ref |-> 1, scenes |-> JsonRoundTrip(list), timestamp |-> 0],
                             [ref |-> 2, scenes |-> JsonRoundTrip(list), timestamp |-> 1] >>
    /\ activeSceneId = 0
    /\ canvas = NewCanvas @@ [scale |-> [n |-> 5, d |-> 1]]
    /\ panelObj = NoObj
    /\ redoStack = <<>>
    /\ ret = NoState
    /\ clock = 2
    /\ live = [ref |-> 0, scenes |-> <<>>]
    /\ op = "init"
    /\ budget = MaxPanelResizeEvents
    /\ run = [phase |-> "loaded"]
    /\ scen = NoScen

\* a value is typed into a Scale field of the panel while the object is selected
ZEdit ==
    \E e \in EdgeEdits :
        /\ run.phase = "selected"
        /\ panelObj # NoObj
        /\ onPropertyChanged(e)
        /\ UNCHANGED run
        /\ ResizeEvent("propertyEdit")

EdgeNext == RSelect \/ RRelease \/ ZEdit \/ RGrab \/ RMove

EdgeSpec == EdgeInit /\ [][EdgeNext]_vars

\* ----------------------------- DragSpec: drags of the objects of a project
\* the scene of the project: a text object alone, or with an asset whose
\* position is near a grid line on both axes
DragObjects(n) ==
    SubSeq(<< [id |-> 101, type |-> "text_display", position |-> W(0, 0), rotation |-> 0,
               scale |-> [x |-> One, y |-> One], layer |-> 0],
              [id |-> 102, type |-> "asset", position |-> W(55, 92), rotation |-> 0,
               scale |-> [x |-> One, y |-> One], layer |-> 0] >>, 1, n)

\* where the pointer goes: the example of the specification, a point 10 units
\* from a grid line on both axes, a point near the asset and near grid lines,
\* a point far from every line, a point left of and below the origin, and a
\* point 9 units from a grid line that is 8 units from the asset
DragPts == {W(147, 5), W(140, 60), W(57, 100), W(125, 30), W(-141, -9), W(59, 109)}

DragInit ==
    /\ \E n \in 1..2 :
          LET list == << [id |-> 0, layers |-> defaultLayers, gameObjects |-> DragObjects(n)] >>
          IN  /\ scenes = << [id |-> 0, layers |-> defaultLayers,
                              gameObjects |-> [i \in 1..n |-> i - 1]] >>
              /\ objs = [o \in 0..(n - 1) |-> DragObjects(n)[o + 1]]
              /\ undoStack = << [ref |-> 1, scenes |-> JsonRoundTrip(list), timestamp |-> 0],
                                [ref |-> 2, scenes |-> JsonRoundTrip(list), timestamp |-> 1] >>
    /\ activeSceneId = 0
    /\ canvas = NewCanvas
    /\ panelObj = NoObj
    /\ redoStack = <<>>
    /\ ret = NoState
    /\ clock = 2
    /\ live = [ref |-> 0, scenes |-> <<>>]
    /\ op = "init"
    /\ budget = MaxDragEvents
    /\ run = [phase |-> "idle"]
    /\ scen = NoScen

\* the primary button goes down on the middle of an object; run keeps the
\* world point of the press and the positions the objects had then
DPress ==
    \E o \in DOMAIN objs, shiftKey \in BOOLEAN :
        /\ run.phase \in {"idle", "released"}
        /\ onMouseDown(0, shiftKey, Pt(objs[o].position.x - canvas.cameraOffset.x,
                                       objs[o].position.y - canvas.cameraOffset.y))
        /\ UNCHANGED histVars
        /\ run' = [phase |-> "pressed", down |-> objs[o].position,
                   start |-> [q \in DOMAIN objs |-> objs[q].position]]
        /\ ResizeEvent("mouseDown")

\* does a mousemove reach the drag branch of onMouseMove?
DragBranch ==
    /\ ~(canvas.isResizing /\ Cardinality(canvas.selectedObjects) = 1)
    /\ ~canvas.isPanning /\ ~canvas.isSelecting
    /\ canvas.isDragging /\ canvas.selectedObjects # {}

\* a move of the pointer; run keeps the proposed position the drag branch
\* computed and the guide lines (this.snapLines) it left for the renderer
DMove ==
    \E s \in DragPts :
        LET target == Pt(screenToWorld(s).x - canvas.dragStart.x,
                         screenToWorld(s).y - canvas.dragStart.y)
            snapped(o) == snapToGridAndObjects(target.x, target.y, o)
        IN  /\ run.phase \in {"pressed", "dragged", "moved"}
            /\ onMouseMove(s, FALSE, FALSE)
            /\ UNCHANGED histVars
            /\ run' = IF DragBranch
                      THEN [phase |-> "dragged", target |-> target,
                            snapLines |-> [x |-> \E o \in canvas.selectedObjects : snapped(o).snapX,
                                           y |-> \E o \in canvas.selectedObjects : snapped(o).snapY],
                            down |-> run.down, start |-> run.start, world |-> screenToWorld(s)]
                      ELSE [phase |-> "moved", down |-> run.down, start |-> run.start]
            /\ ResizeEvent("mouseMove")

DRelease ==
    /\ run.phase \in {"pressed", "dragged", "moved"}
    /\ onMouseUp
    /\ run' = [phase |-> "released"]
    /\ ResizeEvent("mouseUp")

DragNext == DPress \/ DMove \/ DRelease

DragSpec == DragInit /\ [][DragNext]_vars

\* ------------------ PathSpec: drags and resizes of the objects of DragSpec
\* the primary button goes down on handle h of the single selected object;
\* run keeps the object as it is at that moment
XGrab ==
    \E h \in 0..7 :
        /\ run.phase = "released"
        /\ Cardinality(canvas.selectedObjects) = 1
        /\ LET one == getSelectedObject(canvas.selectedObjects)
               s == Pt(Handle4(objs[one], h).x \div 4 - canvas.cameraOffset.x,
                       Handle4(objs[one], h).y \div 4 - canvas.cameraOffset.y)
           IN  /\ getHandleAt(screenToWorld(s), objs[one]) = h
               /\ onMouseDown(0, FALSE, s)
               /\ run' = [phase |-> "resizing", handle |-> h, one |-> one,
                          initial |-> objs[one], moves |-> 0]
        /\ UNCHANGED histVars
        /\ ResizeEvent("mouseDown")

\* a move of the pointer during the resize; run keeps the last MouseEvent
XMove ==
    \E s \in DragPts, altKey \in BOOLEAN, shiftKey \in BOOLEAN :
        /\ run.phase = "resizing"
        /\ onMouseMove(s, altKey, shiftKey)
        /\ UNCHANGED histVars
        /\ run' = [phase |-> "resizing", handle |-> run.handle, one |-> run.one,
                   initial |-> run.initial, moves |-> Min(run.moves + 1, 2),
                   s |-> s, altKey |-> altKey, shiftKey |-> shiftKey]
        /\ ResizeEvent("mouseMove")

XRelease ==
    /\ run.phase = "resizing"
    /\ onMouseUp
    /\ run' = [phase |-> "released"]
    /\ ResizeEvent("mouseUp")

PathNext == DPress \/ DMove \/ DRelease \/ XGrab \/ XMove \/ XRelease

PathSpec == DragInit /\ [][PathNext]_vars

\* ------------------------------------ ViewSpec: the viewport of the canvas
\* In this specification the canvas also carries scale and camera.aspect,
\* cameraOffset is a pair of exact fractions, and pointer positions are pixels.
\* 2 * Math.tan(fovRad / 2) * this.cameraDistance (fov 70, distance 500):
\* 700.2..., taken as a whole number
frustumHeight == 700

RatTimes(a, b) == Rat(a.n * b.n, a.d * b.d)
RatAdd(a, b) ==
    LET g == Gcd(a.d, b.d)
    IN  Rat(a.n * (b.d \div g) + b.n * (a.d \div g), (a.d \div g) * b.d)
RatLess(a, b) == a.n * b.d < b.n * a.d
Zero == [n |-> 0, d |-> 1]

\* Math.max(0.1, Math.min(5.0, q)); both are NaN for NaN
ClampScale(q) ==
    IF q = NaN THEN NaN
    ELSE IF q = Infinity THEN Rat(5, 1)
    ELSE IF RatLess(Rat(5, 1), q) THEN Rat(5, 1)
    ELSE IF RatLess(q, Rat(1, 10)) THEN Rat(1, 10)
    ELSE q

\* container.getBoundingClientRect(): a container that is not laid out, a
\* wide one and a square one
Rects == { [width |-> 0, height |-> 0], [width |-> 1400, height |-> 700],
           [width |-> 700, height |-> 700] }

\* width / height of resize(): 0 / 0 is NaN (no rectangle here has just one
\* side of length 0)
Aspect(rect) == IF rect.height = 0 THEN NaN ELSE Rat(rect.width, rect.height)

\* fitWorkspaceToView() on the canvas cv in a container of size rect
fitWorkspaceToView(cv, rect) ==
    LET scaleY == Rat(frustumHeight * 10, 1080 * 11)
        scaleX == IF Finite(cv.aspect)
                  THEN Rat(frustumHeight * cv.aspect.n * 10, 1920 * 11 * cv.aspect.d)
                  ELSE cv.aspect
        \* Math.min(scaleX, scaleY)
        least == IF scaleX = NaN THEN NaN
                 ELSE IF scaleX = Infinity THEN scaleY
                 ELSE IF RatLess(scaleX, scaleY) THEN scaleX ELSE scaleY
    IN  IF rect.width = 0 \/ rect.height = 0 THEN cv
        ELSE [cv EXCEPT !.scale = ClampScale(least)]

\* resize(): camera.aspect, setupWorkspace() and fitWorkspaceToView()
resize(cv, rect) ==
    fitWorkspaceToView([cv EXCEPT !.aspect = Aspect(rect),
                                  !.cameraOffset = [x |-> Zero, y |-> Zero]], rect)

\* onWheel: e.deltaY > 0 ? 0.9 : 1.1
onWheel(cv, down) ==
    [cv EXCEPT !.scale = IF cv.scale = NaN THEN NaN
                         ELSE ClampScale(RatTimes(cv.scale,
                                  IF down THEN Rat(9, 10) ELSE Rat(11, 10)))]

\* the pan branch of onMouseMove for a pointer at pixel s, container rect
PanMove(cv, s, rect) ==
    LET deltaX == s.x - cv.dragStart.x
        deltaY == s.y - cv.dragStart.y
        \* 2 * Math.tan(fovRad / 2) * (this.cameraDistance / this.scale)
        height == RatTimes(Rat(frustumHeight, 1), [n |-> cv.scale.d, d |-> cv.scale.n])
        width == RatTimes(height, cv.aspect)
        worldDeltaX == RatTimes(Rat(deltaX, rect.width), width)
        worldDeltaY == RatTimes(Rat(deltaY, rect.height), height)
        minus(q) == [n |-> -q.n, d |-> q.d]
    IN  [cv EXCEPT !.cameraOffset = [x |-> RatAdd(cv.cameraOffset.x, minus(worldDeltaX)),
                                     y |-> RatAdd(cv.cameraOffset.y, minus(worldDeltaY))],
                   !.dragStart = s]

\* where the pointer can be, in pixels from the middle of the canvas
ViewPts == {Pt(0, 0), Pt(70, -35), Pt(-140, 70)}

\* the zoom scales the canvas may have been left with by earlier wheel
\* events: near the lower end, near the upper end of the range
EarlierScales == {Rat(3, 28), Rat(19, 4)}

\* the editor after DOMContentLoaded with no project, as in EditorInit: the
\* constructor of the canvas has run resize() on the field initialisers; the
\* wheel may have been turned since
ViewInit ==
    /\ scenes = << [id |-> 0, layers |-> defaultLayers, gameObjects |-> <<>>] >>
    /\ objs = <<>>
    /\ activeSceneId = 0
    /\ \E rect \in Rects :
          LET built == resize(NewCanvas @@ [scale |-> One, aspect |-> Rat(2, 1)], rect)
          IN  \/ canvas = built
              \/ \E q \in EarlierScales : canvas = [built EXCEPT !.scale = q]
    /\ panelObj = NoObj
    /\ undoStack = << [ref |-> 1, scenes |-> << [id |-> 0, layers |-> defaultLayers, gameObjects |-> <<>>] >>,
                       timestamp |-> 0] >>
    /\ redoStack = <<>>
    /\ ret = NoState
    /\ clock = 1
    /\ live = [ref |-> 0, scenes |-> <<>>]
    /\ op = "init"
    /\ budget = MaxViewEvents
    /\ run = NoRun
    /\ scen = NoScen

\* one event of the viewport; no handler here touches the scenes or the history
ViewEvent(name) ==
    /\ Spend
    /\ op' = name
    /\ UNCHANGED <<scenes, objs, activeSceneId, panelObj, histVars, live, run, scen>>

\* the window's "resize" event
VResize ==
    \E rect \in Rects :
        /\ canvas' = resize(canvas, rect)
        /\ ViewEvent("resize")

\* fitWorkspaceToView() called on its own, whatever the container's size is now
VFit ==
    \E rect \in Rects :
        /\ canvas' = fitWorkspaceToView(canvas, rect)
        /\ ViewEvent("fit")

VWheel ==
    \E down \in BOOLEAN :
        /\ canvas' = onWheel(canvas, down)
        /\ ViewEvent("wheel")

VPanDown ==
    \E s \in ViewPts :
        /\ ~canvas.isPanning
        /\ onMouseDown(2, FALSE, s)
        /\ Spend /\ op' = "mouseDown"
        /\ UNCHANGED <<histVars, live, run, scen>>

\* a move of the pan gesture; pointer events reach a canvas that is laid out,
\* and the model follows the pan only while scale and aspect are numbers
VPanMove ==
    \E s \in ViewPts, rect \in Rects :
        /\ canvas.isPanning
        /\ rect.width > 0
        /\ Finite(canvas.scale) /\ Finite(canvas.aspect)
        /\ canvas' = PanMove(canvas, s, rect)
        /\ ViewEvent("mouseMove")

VPanUp ==
    /\ canvas.isPanning
    /\ onMouseUp
    /\ Spend /\ op' = "mouseUp"
    /\ UNCHANGED <<live, run, scen>>

ViewNext == VResize \/ VFit \/ VWheel \/ VPanDown \/ VPanMove \/ VPanUp

ViewSpec == ViewInit /\ [][ViewNext]_vars

\* ------------------------------ ImageSpec: the images of the asset objects
\* In this specification an object carries properties.assetPath, the canvas
\* carries imageCache (the paths that have a texture) and what the last
\* render() drew for each object, and run.loading counts, for each path, the
\* loadImage() promises that have not settled yet.
\* the image files of the project: one that can be read, one that is missing
ImagePaths == {"ok.png", "missing.png"}
Missing == {"missing.png"}

ImageObjects ==
    << [id |-> 101, type |-> "asset", position |-> W(0, 0), rotation |-> 0,
        scale |-> [x |-> One, y |-> One], layer |-> 0, assetPath |-> "ok.png"],
       [id |-> 102, type |-> "asset", position |-> W(60, 0), rotation |-> 0,
        scale |-> [x |-> One, y |-> One], layer |-> 0, assetPath |-> "missing.png"],
       [id |-> 103, type |-> "asset", position |-> W(120, 0), rotation |-> 0,
        scale |-> [x |-> One, y |-> One], layer |-> 0, assetPath |-> "missing.png"] >>

\* the paths render() calls loadImage() for: once for every asset object of the
\* active scene whose path has no texture in the cache
Requested(cache) ==
    LET list == scenes[getActiveScene].gameObjects
    IN  [p \in ImagePaths |->
            Cardinality({i \in 1..Len(list) :
                objs[list[i]].assetPath = p /\ p \notin cache})]

\* render() with renderAssetSync: a cached texture is drawn; otherwise the
\* load is started and the placeholder drawn
render(cache, loading) ==
    [canvas |-> [canvas EXCEPT !.imageCache = cache,
                               !.drawn = [o \in DOMAIN objs |->
                                   IF objs[o].assetPath \in cache THEN "texture"
                                   ELSE "placeholder"]],
     loading |-> [p \in ImagePaths |-> loading[p] + Requested(cache)[p]]]

\* the editor with a project of one to three assets loaded; nothing is
\* rendered yet
ImageInit ==
    /\ \E n \in 1..Len(ImageObjects) :
        /\ scenes = << [id |-> 0, layers |-> defaultLayers,
                        gameObjects |-> [i \in 1..n |-> i - 1]] >>
        /\ objs = [o \in 0..(n - 1) |-> ImageObjects[o + 1]]
        /\ canvas = NewCanvas @@ [imageCache |-> {}, drawn |-> [o \in 0..(n - 1) |-> "nothing"]]
    /\ activeSceneId = 0
    /\ panelObj = NoObj
    /\ undoStack = <<>>
    /\ redoStack = <<>>
    /\ ret = NoState
    /\ clock = 0
    /\ live = [ref |-> 0, scenes |-> <<>>]
    /\ op = "init"
    /\ budget = MaxRenderEvents
    /\ run = [loading |-> [p \in ImagePaths |-> 0], settled |-> "none", failed |-> {}]
    /\ scen = NoScen

\* what every step of this specification leaves alone
ImageFrame ==
    UNCHANGED <<scenes, objs, activeSceneId, panelObj, histVars, live, scen>>

\* a user event whose handler ends in render() (a pointer move, forceRender);
\* it is handled whether or not loads are in flight
IUserRender ==
    LET r == render(canvas.imageCache, run.loading)
    IN  /\ Spend
        /\ \A p \in ImagePaths : r.loading[p] <= MaxInFlight
        /\ canvas' = r.canvas
        /\ run' = [run EXCEPT !.loading = r.loading, !.settled = "none"]
        /\ op' = "render"
        /\ ImageFrame

\* a loadImage() promise for path p settles and its then-callback calls
\* render(): with the texture put into the cache, or with null when the file
\* cannot be read or decoded (nothing is put into the cache then)
ILoadSettles ==
    \E p \in ImagePaths :
        LET cache == IF p \in Missing THEN canvas.imageCache ELSE canvas.imageCache \cup {p}
            r == render(cache, [run.loading EXCEPT ![p] = @ - 1])
        IN  /\ run.loading[p] > 0
            /\ \A q \in ImagePaths : r.loading[q] <= MaxInFlight
            /\ canvas' = r.canvas
            /\ run' = [loading |-> r.loading, settled |-> p,
                       failed |-> IF p \in Missing THEN run.failed \cup {p} ELSE run.failed]
            /\ op' = IF p \in Missing THEN "loadFailed" ELSE "loadDone"
            /\ UNCHANGED budget
            /\ ImageFrame

ImageNext == IUserRender \/ ILoadSettles

ImageSpec == ImageInit /\ [][ImageNext]_vars

\* ------------------------------- TabSpec: two scenes and the tab bar
\* the objects of the project: a text object in the first scene, an asset in
\* the second
TabObjects ==
    << [id |-> 101, type |-> "text_display", position |-> W(0, 0), rotation |-> 0,
        scale |-> [x |-> One, y |-> One], layer |-> 0],
       [id |-> 102, type |-> "asset", position |-> W(200, 100), rotation |-> 0,
        scale |-> [x |-> One, y |-> One], layer |-> 0] >>

\* where the pointer can be: inside the text object, inside the asset, and
\* two points on neither
TabPts == {W(0, 0), W(210, 100), W(120, 30), W(-100, 60)}

\* the editor with the project loaded and its first scene active
TabInit ==
    /\ scenes = << [id |-> 0, layers |-> defaultLayers, gameObjects |-> <<0>>],
                   [id |-> 1, layers |-> defaultLayers, gameObjects |-> <<1>>] >>
    /\ objs = [o \in 0..1 |-> TabObjects[o + 1]]
    /\ activeSceneId = 0
    /\ canvas = NewCanvas
    /\ panelObj = NoObj
    /\ undoStack = <<>>
    /\ redoStack = <<>>
    /\ ret = NoState
    /\ clock = 0
    /\ live = [ref |-> 0, scenes |-> <<>>]
    /\ op = "init"
    /\ budget = MaxTabEvents
    /\ run = NoRun
    /\ scen = NoScen

TMouseDown ==
    \E button \in {0, 2}, shiftKey \in BOOLEAN, s \in TabPts :
        /\ onMouseDown(button, shiftKey, s)
        /\ UNCHANGED histVars
        /\ PointerEvent("mouseDown", Input(button, shiftKey, FALSE, s))

TMouseMove ==
    \E s \in TabPts :
        /\ onMouseMove(s, FALSE, FALSE)
        /\ UNCHANGED histVars
        /\ PointerEvent("mouseMove", Input(-1, FALSE, FALSE, s))

\* the button is released over the canvas (a release anywhere else reaches no
\* listener)
TMouseUp ==
    /\ onMouseUp
    /\ PointerEvent("mouseUp", NoRun)

\* a click on the tab of another scene: TabBar.setActiveTab calls onTabChange,
\* which sets activeSceneId and renders; run records the scene that was left
TTabChange ==
    \E sceneId \in {scenes[i].id : i \in 1..Len(scenes)} :
        /\ sceneId # activeSceneId
        /\ Editor(scenes, objs, sceneId, canvas, panelObj)
        /\ UNCHANGED histVars
        /\ PointerEvent("tabChange",
                        [phase |-> "tab", from |-> activeSceneId, gesture |-> InGesture])

TabNext == TMouseDown \/ TMouseMove \/ TMouseUp \/ TTabChange

TabSpec == TabInit /\ [][TabNext]_vars

\* ------------------------------------------- binary floating point numbers
\* A JavaScript number is a binary floating point number, and every
\* arithmetic operation gives the representable number nearest to the exact
\* result, ties to the even significand. Here a number is [m, e], standing
\* for m * 2^e, with |m| a significand of exactly MantissaBits bits, or m = 0;
\* the exponent range is not limited.
\* the number of bits of n > 0
BitLen(n) == CHOOSE k \in 1..30 : 2^(k - 1) <= n /\ n < 2^k

\* the number nearest to n * 2^e
Round(n, e) ==
    LET a == Abs(n)
        sgn == IF n < 0 THEN -1 ELSE 1
        len == BitLen(a)
        k == len - MantissaBits
        q == a \div 2^k
        r == a % 2^k
        up == r > 2^(k - 1) \/ (r = 2^(k - 1) /\ q % 2 = 1)
        q1 == IF up THEN q + 1 ELSE q
    IN  IF n = 0 THEN [m |-> 0, e |-> 0]
        ELSE IF len <= MantissaBits
        THEN [m |-> n * 2^(MantissaBits - len), e |-> e - (MantissaBits - len)]
        ELSE IF q1 = 2^MantissaBits
        THEN [m |-> sgn * 2^(MantissaBits - 1), e |-> e + k + 1]
        ELSE [m |-> sgn * q1, e |-> e + k]

\* a * b
FMul(a, b) == Round(a.m * b.m, a.e + b.e)

\* a + b; an addend below an eighth of the other's last place changes nothing
FAdd(a, b) ==
    LET low == Min(a.e, b.e)
    IN  IF a.m = 0 THEN b
        ELSE IF b.m = 0 THEN a
        ELSE IF a.e - b.e > MantissaBits + 2 THEN a
        ELSE IF b.e - a.e > MantissaBits + 2 THEN b
        ELSE Round(a.m * 2^(a.e - low) + b.m * 2^(b.e - low), low)

\* -a
FNeg(a) == [a EXCEPT !.m = -a.m]

\* a - b
FSub(a, b) == FAdd(a, FNeg(b))

\* a / b for b # 0: the quotient to MantissaBits + 2 bits and a sticky bit
FDiv(a, b) ==
    LET num == Abs(a.m) * 2^(MantissaBits + 2)
        q == num \div Abs(b.m)
        sticky == IF num % Abs(b.m) = 0 THEN 0 ELSE 1
        sgn == IF (a.m < 0) = (b.m < 0) THEN 1 ELSE -1
    IN  IF a.m = 0 THEN a
        ELSE Round(sgn * (2 * q + sticky), a.e - b.e - MantissaBits - 3)

\* the number literal num / den (0.1 is Dec(1, 10))
Dec(num, den) == FDiv(Round(num, 0), Round(den, 0))

\* a <= b
FLeq(a, b) == FSub(a, b).m <= 0

FMax(a, b) == IF FLeq(a, b) THEN b ELSE a
FMin(a, b) == IF FLeq(a, b) THEN a ELSE b

\* ---------------------- ConversionSpec: the 2D renderer's coordinate maps
\* a renderer that forgets to turn the y axis
worldToScreen_sameY(cv, pos) ==
    [x |-> FAdd(cv.offset.x, FMul(pos.x, cv.scale)),
     y |-> FAdd(cv.offset.y, FMul(pos.y, cv.scale))]

\* worldToScreen(pos)
worldToScreen(cv, pos) ==
    [x |-> FAdd(cv.offset.x, FMul(pos.x, cv.scale)),
     y |-> FSub(cv.offset.y, FMul(pos.y, cv.scale))]

\* screenToWorld(screenPos) of the 2D renderer
screenToWorld2D(cv, screenPos) ==
    [x |-> FDiv(FSub(screenPos.x, cv.offset.x), cv.scale),
     y |-> FDiv(FNeg(FSub(screenPos.y, cv.offset.y)), cv.scale)]

\* setZoom(scale)
setZoom(cv, scale) == [cv EXCEPT !.scale = FMax(Dec(1, 10), FMin(Round(5, 0), scale))]

\* resizeCanvas() with a 16:9 canvas in a wrapper of the given client size
resizeCanvas(cv, wrapperWidth, wrapperHeight) ==
    LET w0 == Round(wrapperWidth - 40, 0)
        h0 == FMul(FDiv(w0, Round(16, 0)), Round(9, 0))
        hmax == Round(wrapperHeight - 40, 0)
        fits == FLeq(h0, hmax)
        canvasHeight == IF fits THEN h0 ELSE hmax
        canvasWidth == IF fits THEN w0 ELSE FMul(FDiv(hmax, Round(9, 0)), Round(16, 0))
    IN  [cv EXCEPT !.offset = [x |-> FDiv(canvasWidth, Round(2, 0)),
                               y |-> FDiv(canvasHeight, Round(2, 0))]]

\* the client sizes of the wrapper, the zoom levels asked for, and the points
\* converted
WrapperSizes == {<<1320, 900>>, <<840, 400>>, <<646, 700>>}
ZoomLevels == {Dec(1, 20), Dec(1, 10), Dec(1, 2), Dec(9, 10), Dec(11, 10), Dec(5, 2), Round(7, 0)}
WorldPts == {<<Round(0, 0), Round(0, 0)>>, <<Round(3, 0), Round(1, 0)>>,
             <<Round(100, 0), Round(-50, 0)>>, <<Dec(3, 10), Dec(-15, 2)>>}
PixelPts == {<<Round(0, 0), Round(0, 0)>>, <<Round(7, 0), Round(640, 0)>>,
             <<Round(123, 0), Round(457, 0)>>}

\* the renderer after its constructor: scale 1, the offset set by resizeCanvas
ConversionInit ==
    /\ \E size \in WrapperSizes :
          canvas = resizeCanvas([scale |-> Round(1, 0),
                                 offset |-> [x |-> Round(0, 0), y |-> Round(0, 0)]],
                                size[1], size[2])
    /\ scenes = <<>>
    /\ objs = <<>>
    /\ activeSceneId = -1
    /\ panelObj = NoObj
    /\ undoStack = <<>>
    /\ redoStack = <<>>
    /\ ret = NoState
    /\ clock = 0
    /\ live = [ref |-> 0, scenes |-> <<>>]
    /\ op = "init"
    /\ budget = MaxConversions
    /\ run = [phase |-> "none"]
    /\ scen = NoScen

\* what the steps of this specification leave alone
ConversionFrame ==
    UNCHANGED <<scenes, objs, activeSceneId, panelObj, histVars, live, scen>>

KResizeCanvas ==
    \E size \in WrapperSizes :
        /\ Spend
        /\ canvas' = resizeCanvas(canvas, size[1], size[2])
        /\ op' = "resizeCanvas"
        /\ run' = [phase |-> "none"]
        /\ ConversionFrame

KSetZoom ==
    \E scale \in ZoomLevels :
        /\ Spend
        /\ canvas' = setZoom(canvas, scale)
        /\ op' = "setZoom"
        /\ run' = [phase |-> "none"]
        /\ ConversionFrame

\* a world point is taken to the screen and back
KWorldToScreen ==
    \E p \in WorldPts :
        LET pos == [x |-> p[1], y |-> p[2]]
            mid == worldToScreen(canvas, pos)
        IN  /\ Spend
            /\ run' = [phase |-> "world", p |-> pos, mid |-> mid,
                       back |-> screenToWorld2D(canvas, mid)]
            /\ op' = "worldToScreen"
            /\ UNCHANGED canvas
            /\ ConversionFrame

\* a screen point is taken to the world and back
KScreenToWorld ==
    \E p \in PixelPts :
        LET pos == [x |-> p[1], y |-> p[2]]
            mid == screenToWorld2D(canvas, pos)
        IN  /\ Spend
            /\ run' = [phase |-> "screen", p |-> pos, mid |-> mid,
                       back |-> worldToScreen(canvas, mid)]
            /\ op' = "screenToWorld"
            /\ UNCHANGED canvas
            /\ ConversionFrame

ConversionNext == KResizeCanvas \/ KSetZoom \/ KWorldToScreen \/ KScreenToWorld

ConversionSpec == ConversionInit /\ [][ConversionNext]_vars

\* -------------------------------- RunSpec: N pushState, then N-1 undo()
\* the user moves the object one unit to the right
Moved(list) ==
    [list EXCEPT ![1].gameObjects[1].position.x = list[1].gameObjects[1].position.x + 1]

RunInit ==
    /\ undoStack = <<>>
    /\ redoStack = <<>>
    /\ ret = NoState
    /\ clock = 0
    /\ \E s \in ScaleVals : live = [ref |-> 0, scenes |-> SceneList(0, s)]
    /\ op = "clear"
    /\ budget = 0
    /\ run = NoRun
    /\ scen = NoScen
    /\ NoEditor

\* pushState(scenes); afterwards the caller edits its scenes in place
RunPush ==
    /\ scen.undos = 0
    /\ scen.pushes < MaxRun
    /\ pushState(live)
    /\ live' = [live EXCEPT !.scenes = Moved(live.scenes)]
    /\ op' = "pushState"
    /\ scen' = [scen EXCEPT !.pushes = scen.pushes + 1,
                            !.first = IF scen.pushes = 0 THEN Top(undoStack').scenes
                                      ELSE scen.first]
    /\ UNCHANGED <<budget, run>>
    /\ UNCHANGED edVars

RunUndo ==
    /\ scen.pushes > 1
    /\ scen.undos < scen.pushes - 1
    /\ undo
    /\ op' = "undo"
    /\ scen' = [scen EXCEPT !.undos = scen.undos + 1]
    /\ UNCHANGED <<live, budget, run>>
    /\ UNCHANGED edVars

RunNext == RunPush \/ RunUndo

RunSpec == RunInit /\ [][RunNext]_vars

\* ------------------------------------------------------------------ C2
\* C2 as stated: after N pushState calls (any N > 1) on a cleared history and
\* N-1 undo() calls, canUndo() is false and the last undo() returned the first
\* pushed state.
C2_Original ==
    (scen.pushes > 1 /\ scen.undos = scen.pushes - 1) =>
        ~canUndo /\ ret # NoState /\ ret.scenes = scen.first

\* C2 amended: the same for 1 < N <= 50 (the history limit).
C2_RunBackToFirst ==
    (scen.pushes > 1 /\ scen.pushes <= maxHistorySize /\ scen.undos = scen.pushes - 1) =>
        ~canUndo /\ ret # NoState /\ ret.scenes = scen.first

C2_Witness ==
    /\ scen.pushes = maxHistorySize /\ scen.undos = maxHistorySize - 1
    /\ op = "undo" /\ ret.scenes = scen.first /\ ret.timestamp = 0
    /\ Len(redoStack) = maxHistorySize - 1

\* ------------------------------------------------------------------ C1
\* C1: every pushState empties the redo stack: right after a pushState
\* canRedo() is false, and a redo() called next returns null and moves nothing.
C1_PushClearsRedo ==
    [][ /\ (op' = "pushState" => ~canRedo')
        /\ (op = "pushState" /\ op' = "redo" =>
                ret' = NoState /\ UNCHANGED <<undoStack, redoStack>>) ]_vars

\* a pushState made after an undo (the timestamps on the undo stack show the gap
\* left by the discarded redo entry), then a refused redo
C1_Witness ==
    /\ op = "redo" /\ ret = NoState
    /\ Len(undoStack) >= 2
    /\ Top(undoStack).timestamp > undoStack[Len(undoStack) - 1].timestamp + 1

\* ------------------------------------------------------------------ C3
\* C3: k undo() calls followed by k redo() calls (k < undo depth) leave both
\* stacks exactly as they were, and the last redo() returns scenes deep-equal
\* to the state that was on top before the first undo.
C3_UndoRedoRoundTrip ==
    (run.phase = "redo" /\ run.j = run.k) =>
        /\ undoStack = run.uBase
        /\ redoStack = run.rBase
        /\ (op = "redo" => ret # NoState /\ ret.scenes = Top(run.uBase).scenes
                           /\ ret.timestamp = Top(run.uBase).timestamp)

C3_Witness == op = "redo" /\ run.phase = "redo" /\ run.j = run.k /\ run.k >= 2

\* ------------------------------------------------------------------ C4
\* C4: snapshots have value semantics: no stack entry shares its graph with
\* the live scenes, with a returned state or with another entry, so a write to
\* the live scenes or to a returned state changes no stack entry.
NoSharing ==
    /\ Cardinality(RefsOf(undoStack) \cup RefsOf(redoStack)) = Len(undoStack) + Len(redoStack)
    /\ live.ref \notin RefsOf(undoStack) \cup RefsOf(redoStack)
    /\ ret.ref \notin RefsOf(undoStack) \cup RefsOf(redoStack)

C4_ValueSemantics ==
    [][ /\ NoSharing'
        /\ (op' \in {"mutateLive", "mutateRet"} => UNCHANGED <<undoStack, redoStack>>) ]_vars

\* the caller has rewritten the state undo() returned; the entry it was copied
\* from still holds the old content
C4_Witness ==
    /\ op = "mutateRet"
    /\ Len(undoStack) >= 1 /\ Len(redoStack) >= 1
    /\ ret.timestamp = Top(undoStack).timestamp
    /\ ret.scenes # Top(undoStack).scenes

\* ------------------------------------------------------------------ C5
\* C5: the undo stack never holds more than 50 entries; a pushState made at
\* 50 entries drops the oldest and keeps the other 49, in order, under the new one.
C5_BoundedUndo ==
    [][ /\ Len(undoStack) <= maxHistorySize
        /\ Len(undoStack') <= maxHistorySize
        /\ (op' = "pushState" /\ Len(undoStack) = maxHistorySize =>
               /\ Len(undoStack') = maxHistorySize
               /\ SubSeq(undoStack', 1, maxHistorySize - 1) = SubSeq(undoStack, 2, maxHistorySize)
               /\ Top(undoStack').timestamp = clock) ]_vars

C5_Witness ==
    /\ op = "pushState"
    /\ Len(undoStack) = maxHistorySize
    /\ undoStack[1].timestamp = 1
    /\ Top(undoStack).timestamp = maxHistorySize

\* ------------------------------------------------------------------ C6
\* C6: pushState leaves at least one entry on the undo stack, and neither
\* undo nor redo takes a non-empty undo stack to an empty one.
C6_UndoNeverEmpties ==
    [][ /\ (op' = "pushState" => Len(undoStack') >= 1)
        /\ (op' \in {"pushState", "undo", "redo"} /\ Len(undoStack) >= 1 =>
                Len(undoStack') >= 1) ]_vars

\* an undo() refused at depth 1, after an earlier undo() went through
C6_Witness == op = "undo" /\ ret = NoState /\ Len(undoStack) = 1 /\ Len(redoStack) >= 1

\* ------------------------------------------------------------------ C7
\* C7: undo() acts exactly when canUndo() is true and redo() exactly when
\* canRedo() is true; otherwise the call returns null and leaves both stacks
\* as they are (undo stack of at most 1 entry, empty redo stack).
C7_UnderflowNoOp ==
    [][ /\ (op' = "undo" =>
              IF canUndo
              THEN ret' # NoState /\ Len(undoStack') = Len(undoStack) - 1
              ELSE Len(undoStack) <= 1 /\ ret' = NoState
                   /\ UNCHANGED <<undoStack, redoStack>>)
        /\ (op' = "redo" =>
              IF canRedo
              THEN ret' # NoState /\ Len(redoStack') = Len(redoStack) - 1
              ELSE Len(redoStack) = 0 /\ ret' = NoState
                   /\ UNCHANGED <<undoStack, redoStack>>) ]_vars

C7_Witness == op = "redo" /\ ret = NoState /\ Len(undoStack) >= 2 /\ budget < MaxOps - 1

\* ------------------------------------------------------------------ C8
\* C8: undo() at depth > 1 removes exactly the top undo entry, puts that entry
\* on the redo stack and returns scenes deep-equal to the new top.
C8_UndoMovesTop ==
    [][ (op' = "undo" /\ Len(undoStack) > 1) =>
            /\ undoStack' = Pop(undoStack)
            /\ redoStack' = Append(redoStack, Top(undoStack))
            /\ ret' # NoState
            /\ ret'.scenes = Top(undoStack').scenes ]_vars

C8_Witness ==
    /\ op = "undo" /\ ret # NoState
    /\ Len(redoStack) >= 1
    /\ ret.scenes = Top(undoStack).scenes
    /\ ret.scenes # Top(redoStack).scenes

\* ---------------------------------------------------------------- C9
\* C9, as stated: every pointer-up that completes a gesture (drag, resize, pan
\* or marquee) causes exactly one pushState, and no pointer-move causes one.
C9_Original ==
    [][ /\ (op' = "mouseUp" /\ InGesture) => clock' = clock + 1
        /\ op' = "mouseMove" => clock' = clock ]_vars

\* C9, amended: a pointer-up causes exactly one pushState, of the scenes as they
\* are then, when a drag or a resize is in progress and the selection is not
\* empty, and none otherwise (so none for a pan or a marquee); no pointer-down
\* and no pointer-move causes a pushState.
C9_DragOrResizeCommits ==
    [][ /\ op' = "mouseUp" =>
             IF (canvas.isDragging \/ canvas.isResizing) /\ canvas'.selectedObjects # {}
             THEN /\ clock' = clock + 1
                  /\ Top(undoStack').timestamp = clock
                  /\ Top(undoStack').scenes = JsonRoundTrip(SceneValues(scenes', objs'))
                  /\ redoStack' = <<>>
             ELSE UNCHANGED <<undoStack, redoStack, clock>>
        /\ op' \in {"mouseDown", "mouseMove"} => UNCHANGED <<undoStack, redoStack, clock>>
      ]_vars

\* a drag has just been released: the release pushed one state, in which an
\* object is somewhere else than in the state before it
C9_Witness ==
    /\ op = "mouseUp"
    /\ scen.pushes = 1
    /\ Len(undoStack) >= 3
    /\ Top(undoStack).scenes # Top(Pop(undoStack)).scenes
    /\ Len(Top(undoStack).scenes[1].gameObjects) = Len(Top(Pop(undoStack)).scenes[1].gameObjects)

\* ---------------------------------------------------------------- C10
\* C10, as stated: every edit made through the property panel results in a
\* pushState, and an undo issued right after the edit brings back the scenes as
\* they were before the edit.
C10_PanelEditCommits ==
    [][ /\ op' = "propertyEdit" => clock' = clock + 1
        /\ (op = "propertyEdit" /\ op' = "undo") =>
              JsonRoundTrip(SceneValues(scenes', objs')) = JsonRoundTrip(scen.first)
      ]_vars

\* ---------------------------------------------------------------- C11
\* the modes of the canvas that are active
ActiveModes(cv) ==
    {m \in {"dragging", "panning", "selecting", "resizing"} :
        \/ m = "dragging" /\ cv.isDragging
        \/ m = "panning" /\ cv.isPanning
        \/ m = "selecting" /\ cv.isSelecting
        \/ m = "resizing" /\ cv.isResizing}

\* C11, as stated: at most one of the modes dragging, panning,
\* marquee-selecting and resizing is ever active, and a pointer-down received
\* while a gesture is in progress leaves the modes as they are.
C11_AtMostOneMode ==
    [][ /\ Cardinality(ActiveModes(canvas')) <= 1
        /\ (op' = "mouseDown" /\ InGesture) => ActiveModes(canvas') = ActiveModes(canvas)
      ]_vars

\* ---------------------------------------------------------------- C13
\* C13, as stated: a pointer-down enters dragging mode only over an object that
\* was already selected before it.  The handler leaves the object it hit in the
\* selection, so the selection after the pointer-down holds nothing new.
C13_DragOnlySelected ==
    [][ (op' = "mouseDown" /\ ~canvas.isDragging /\ canvas'.isDragging)
            => canvas'.selectedObjects \subseteq canvas.selectedObjects ]_vars

\* ---------------------------------------------------------------- C18
\* C18, as stated: an event that changes the set of selected objects emits the
\* selection notification while it is handled.  The property panel listens to
\* "object-selected" and shows its detail, so after such an event the panel
\* shows the single selected object, or none.
C18_SelectionChangeNotified ==
    [][ canvas'.selectedObjects # canvas.selectedObjects
            => panelObj' = getSelectedObject(canvas'.selectedObjects) ]_vars

\* ---------------------------------------------------------------- C12
\* the values of the objects that exist before and after the step are the same
SameObjects == \A o \in DOMAIN objs \cap DOMAIN objs' : objs'[o] = objs[o]

\* C12: a pointer-down received while the selection holds 0 or more than 1
\* objects does not enter resizing mode; with the primary button it goes on to
\* the object hit-test (a drag starts on a hit) or to the marquee (on a miss),
\* and it changes no object's position, rotation or scale.
C12_ResizeNeedsOneSelected ==
    [][ (op' = "mouseDown" /\ Cardinality(canvas.selectedObjects) # 1) =>
           /\ canvas'.isResizing = canvas.isResizing
           /\ canvas'.resizeHandle = canvas.resizeHandle
           /\ SameObjects
           /\ run'.button = 0 =>
                 LET found == HitObject(screenToWorld(run'.s))
                 IN  IF found # NoObj
                     THEN canvas'.isDragging /\ found \in canvas'.selectedObjects
                     ELSE canvas'.isSelecting /\ canvas'.selectionStart = run'.s
      ]_vars

\* two objects were selected when the primary button went down, with shift, on
\* a point that is on a handle of each of them and inside no object: the
\* marquee has started and nothing is being resized
C12_Witness ==
    /\ op = "mouseDown"
    /\ run.button = 0 /\ run.shiftKey /\ run.s = W(-10, -30)
    /\ Cardinality(canvas.selectedObjects) = 2
    /\ \A o \in canvas.selectedObjects : getHandleAt(screenToWorld(run.s), objs[o]) >= 0
    /\ canvas.isSelecting /\ canvas.selectionStart = run.s
    /\ ~canvas.isResizing

\* ---------------------------------------------------------------- C14
\* scene.layers.find((l) => l.id === (obj.layer ?? 0)): the index of the
\* object's layer in the scene, 0 when the scene has no such layer
LayerIndex(scene, obj) ==
    IF \E i \in 1..Len(scene.layers) : scene.layers[i].id = obj.layer
    THEN CHOOSE i \in 1..Len(scene.layers) :
            /\ scene.layers[i].id = obj.layer
            /\ \A k \in 1..(i - 1) : scene.layers[k].id # obj.layer
    ELSE 0

\* the object is on a layer of the scene that is hidden or locked
OnHiddenOrLockedLayer(scene, obj) ==
    /\ LayerIndex(scene, obj) # 0
    /\ \/ ~scene.layers[LayerIndex(scene, obj)].visible
       \/ scene.layers[LayerIndex(scene, obj)].locked

\* C14, as stated: the object a pointer-down picks (the one it adds to the
\* selection) is never on a layer that is hidden or locked.
C14_HitSkipsHiddenAndLocked ==
    [][ op' = "mouseDown" =>
            \A o \in canvas'.selectedObjects \ canvas.selectedObjects :
                ~OnHiddenOrLockedLayer(scenes'[SceneIndex(scenes', activeSceneId')], objs'[o])
      ]_vars

\* ---------------------------------------------------------------- C15
\* the pointer-down does not land on a resize handle of a single selection
HandleMiss(p) ==
    \/ Cardinality(canvas.selectedObjects) # 1
    \/ \A o \in canvas.selectedObjects : getHandleAt(p, objs[o]) < 0

\* the positions in the scene's gameObjects of the objects that contain p
Containing(p) ==
    {i \in 1..Len(scenes[getActiveScene].gameObjects) :
        LET obj == objs[scenes[getActiveScene].gameObjects[i]]
            l == ToLocal(p, obj)
        IN  /\ 2 * Abs(l.x) <= getObjectBounds(obj, TRUE).width
            /\ 2 * Abs(l.y) <= getObjectBounds(obj, TRUE).height}

\* the object latest in insertion order among those that contain p, if any
LatestContaining(p) ==
    {scenes[getActiveScene].gameObjects[i] :
        i \in {k \in Containing(p) : \A j \in Containing(p) : j <= k}}

\* C15: when the point of a primary-button pointer-down (not on a handle) lies
\* inside several objects, the object picked is the one latest in the scene's
\* insertion order, whatever the objects' layers; when it lies inside none,
\* no object is picked and the marquee starts.
C15_LatestInsertedWins ==
    [][ (op' = "mouseDown" /\ run'.button = 0 /\ HandleMiss(screenToWorld(run'.s))) =>
           LET inside == Containing(screenToWorld(run'.s))
               list == scenes[getActiveScene].gameObjects
               picked == canvas'.selectedObjects \
                            (IF run'.shiftKey THEN canvas.selectedObjects ELSE {})
           IN  IF inside = {}
               THEN picked = {} /\ canvas'.isSelecting
               ELSE /\ \E i \in inside :
                         /\ \A k \in inside : k <= i
                         /\ list[i] \in canvas'.selectedObjects
                         /\ picked \subseteq {list[i]}
                    /\ canvas'.isDragging
      ]_vars

\* the press was inside both text objects (and outside the asset): the second
\* one is picked although the first is on the higher layer, drawn above it
C15_Witness ==
    /\ op = "mouseDown"
    /\ run.button = 0 /\ ~run.shiftKey /\ run.s = W(20, 0)
    /\ canvas.isDragging
    /\ \E a \in DOMAIN objs, b \in DOMAIN objs :
          /\ objs[a].id = 101 /\ objs[b].id = 102
          /\ isPointInObject(W(20, 0), objs[a]) /\ isPointInObject(W(20, 0), objs[b])
          /\ objs[a].layer > objs[b].layer
          /\ canvas.selectedObjects = {b}

\* ---------------------------------------------------------------- C16
\* p lies in the rectangle spanned by the corners a and b, bounds included
InRect(p, a, b) ==
    /\ Min(a.x, b.x) <= p.x /\ p.x <= Max(a.x, b.x)
    /\ Min(a.y, b.y) <= p.y /\ p.y <= Max(a.y, b.y)

\* the objects of the active scene
SceneObjects ==
    IF getActiveScene = 0 THEN {}
    ELSE {scenes[getActiveScene].gameObjects[i] :
            i \in 1..Len(scenes[getActiveScene].gameObjects)}

\* the (unrotated) bounds of obj and the rectangle spanned by a and b overlap
BoundsTouch(obj, a, b) ==
    /\ 2 * obj.position.x + getObjectBounds(obj, TRUE).width >= 2 * Min(a.x, b.x)
    /\ 2 * obj.position.x - getObjectBounds(obj, TRUE).width <= 2 * Max(a.x, b.x)
    /\ 2 * obj.position.y + getObjectBounds(obj, TRUE).height >= 2 * Min(a.y, b.y)
    /\ 2 * obj.position.y - getObjectBounds(obj, TRUE).height <= 2 * Max(a.y, b.y)

\* C16: the release of a marquee adds an object of the scene to the selection
\* if and only if its position lies in the world-space rectangle between the
\* point of the pointer-down and the last point of the pointer, bounds
\* included; what was selected before stays selected.
C16_MarqueeByPosition ==
    [][ (op' = "mouseUp" /\ canvas.isSelecting) =>
           canvas'.selectedObjects =
              canvas.selectedObjects \cup
              {o \in SceneObjects : InRect(objs[o].position,
                                           screenToWorld(canvas.selectionStart),
                                           screenToWorld(canvas.dragStart))}
      ]_vars

\* a marquee drawn with no modifier has just been released: the two text
\* objects are selected, their positions on the upper edge of the rectangle,
\* and the asset, whose bounds reach into the rectangle, is not
C16_Witness ==
    /\ op = "mouseUp"
    /\ canvas.selectionStart # canvas.dragStart
    /\ Cardinality(canvas.selectedObjects) = 2
    /\ \A o \in SceneObjects :
          o \in canvas.selectedObjects <=>
             InRect(objs[o].position, screenToWorld(canvas.selectionStart),
                    screenToWorld(canvas.dragStart))
    /\ \E o \in canvas.selectedObjects :
          objs[o].position.y = Max(screenToWorld(canvas.selectionStart).y,
                                   screenToWorld(canvas.dragStart).y)
    /\ \E o \in SceneObjects \ canvas.selectedObjects :
          BoundsTouch(objs[o], screenToWorld(canvas.selectionStart),
                      screenToWorld(canvas.dragStart))

\* ---------------------------------------------------------------- C17
\* the selection a primary-button pointer-down at s is said to leave
SelectionAfterPress(shiftKey, s) ==
    (IF shiftKey THEN canvas.selectedObjects ELSE {}) \cup LatestContaining(screenToWorld(s))

\* C17, as stated: every primary-button pointer-down without the modifier makes
\* the selection exactly the hit object (empty when nothing is hit); with the
\* modifier it keeps the selection and adds the hit object, if any.
C17_Original ==
    [][ (op' = "mouseDown" /\ run'.button = 0) =>
           canvas'.selectedObjects = SelectionAfterPress(run'.shiftKey, run'.s) ]_vars

\* C17, amended: a primary-button pointer-down that is not taken by a resize
\* handle of the single selected object replaces the selection by the hit
\* object (by nothing on a miss) without the modifier, and keeps it and adds
\* the hit object, if any, with the modifier; a pointer-down on such a handle
\* leaves the selection as it is, with or without the modifier.
C17_ReplaceOrAdd ==
    [][ (op' = "mouseDown" /\ run'.button = 0) =>
           IF HandleMiss(screenToWorld(run'.s))
           THEN canvas'.selectedObjects = SelectionAfterPress(run'.shiftKey, run'.s)
           ELSE canvas'.selectedObjects = canvas.selectedObjects /\ canvas'.isResizing
      ]_vars

\* the press, with the modifier, was inside the first text object only, and
\* the second text object, selected before, is still selected beside it
C17_Witness ==
    /\ op = "mouseDown"
    /\ run.button = 0 /\ run.shiftKey /\ run.s = W(-40, 0)
    /\ Cardinality(canvas.selectedObjects) = 2
    /\ \E o \in canvas.selectedObjects : isPointInObject(screenToWorld(run.s), objs[o])
    /\ \E o \in canvas.selectedObjects : ~isPointInObject(screenToWorld(run.s), objs[o])

\* ---------------------------------------------------------------- C19
\* the object being resized
Resized == objs[getSelectedObject(canvas.selectedObjects)]

\* the handles of the same kind as handle h: the corners, or the edge midpoints
SameKind(h) == IF getHandleType(h) = "corner" THEN 0..3 ELSE 4..7

C20_CentreFixed ==
    (run.phase = "resizing" /\ run.moved /\ run.altKey) => Resized.position = run.position

\* an alt move of an edge handle that changed the size of a turned object,
\* after a move without alt that had moved its centre
C20_Witness ==
    /\ run.phase = "resizing" /\ run.moved /\ run.altKey
    /\ getHandleType(run.handle) = "horizontal"
    /\ Resized.rotation = 270
    /\ Resized.scale.x # Resized.scale.y
    /\ scen.first[1].gameObjects[1].position # run.position
    /\ Resized.position = run.position

\* ---------------------------------------------------------------- C21
\* C21, as stated: after every move of a resize, wherever the pointer is and
\* whatever modifiers are held, both scale components of the object are
\* numbers above 0, and its width (base width x scale.x) and height (base
\* height x scale.y) are at least 5 world units each.
C21_MinimumSize ==
    (run.phase = "resizing" /\ run.moved) =>
        /\ Resized.scale.x # NaN /\ Resized.scale.y # NaN
        /\ Resized.scale.x.n > 0 /\ Resized.scale.y.n > 0
        /\ getObjectBounds(Resized, FALSE).width * Resized.scale.x.n
                >= minSize * Resized.scale.x.d
        /\ getObjectBounds(Resized, FALSE).height * Resized.scale.y.n
                >= minSize * Resized.scale.y.d

\* ---------------------------------------------------------------- C22
\* the objects a dragged object can snap to: those of the scene not selected
SnapCandidates ==
    {scenes[getActiveScene].gameObjects[i] : i \in 1..Len(scenes[getActiveScene].gameObjects)}
        \ canvas.selectedObjects

\* the multiples of the grid size around the canvas
GridLines == {k * gridSize : k \in -8..8}

\* C22, as stated: in a scene with no other snap candidate, on each axis a
\* proposed coordinate c at most 10 units from the nearest multiple m of 50
\* becomes exactly m and the axis is reported as snapped; otherwise the
\* coordinate stays c and the axis is not reported.
C22_Original ==
    (run.phase = "dragged" /\ SnapCandidates = {}) =>
        \A o \in canvas.selectedObjects :
            LET nearX == {m \in GridLines : Abs(run.target.x - m) <= snapThreshold}
                nearY == {m \in GridLines : Abs(run.target.y - m) <= snapThreshold}
            IN  /\ run.snapLines.x = (nearX # {})
                /\ run.snapLines.y = (nearY # {})
                /\ objs[o].position.x \in (IF nearX # {} THEN nearX ELSE {run.target.x})
                /\ objs[o].position.y \in (IF nearY # {} THEN nearY ELSE {run.target.y})

\* C22, amended: the same with "less than 10 units" in the place of "at most
\* 10 units": a coordinate exactly 10 units from the grid line stays as it is.
C22_GridSnap ==
    (run.phase = "dragged" /\ SnapCandidates = {}) =>
        \A o \in canvas.selectedObjects :
            LET nearX == {m \in GridLines : Abs(run.target.x - m) < snapThreshold}
                nearY == {m \in GridLines : Abs(run.target.y - m) < snapThreshold}
            IN  /\ run.snapLines.x = (nearX # {})
                /\ run.snapLines.y = (nearY # {})
                /\ objs[o].position.x \in (IF nearX # {} THEN nearX ELSE {run.target.x})
                /\ objs[o].position.y \in (IF nearY # {} THEN nearY ELSE {run.target.y})

\* the example of the specification: the only object of the scene is dragged
\* to (147, 5) and lands on (150, 0), both axes reported
C22_Witness ==
    /\ run.phase = "dragged" /\ SnapCandidates = {}
    /\ Len(scenes[getActiveScene].gameObjects) = 1
    /\ run.target = W(147, 5)
    /\ \A o \in canvas.selectedObjects : objs[o].position = W(150, 0)
    /\ run.snapLines = [x |-> TRUE, y |-> TRUE]

\* ---------------------------------------------------------------- C23
\* C23, as stated: on each axis the grid comes first: a proposed coordinate
\* that matches a grid line within the threshold is returned as that grid
\* multiple, even if an unselected object's coordinate on that axis is within
\* the threshold too; an object is snapped to only where the grid did not match.
C23_GridBeforeObjects ==
    run.phase = "dragged" =>
        \A o \in canvas.selectedObjects :
            /\ \A m \in GridLines :
                   Abs(run.target.x - m) < snapThreshold => objs[o].position.x = m
            /\ \A m \in GridLines :
                   Abs(run.target.y - m) < snapThreshold => objs[o].position.y = m

\* ---------------------------------------------------------------- C24
\* the object data, the selection and the history are what they were
SameData ==
    /\ SceneValues(scenes', objs') = SceneValues(scenes, objs)
    /\ canvas'.selectedObjects = canvas.selectedObjects
    /\ undoStack' = undoStack /\ redoStack' = redoStack

\* C24, as stated: the events of a pan gesture (the secondary-button
\* pointer-down, and every pointer-move and the pointer-up received while the
\* panning mode is active) change no object's position, rotation or scale,
\* nor the object list, the selection or the history stacks.
C24_PanTouchesOnlyCamera ==
    [][ ( \/ op' = "mouseDown" /\ run'.button = 2
          \/ op' \in {"mouseMove", "mouseUp"} /\ canvas.isPanning ) => SameData
      ]_vars

\* C24 for a pan gesture that starts while no other gesture is in progress
C24_PanFromIdle ==
    [][ ( \/ op' = "mouseDown" /\ run'.button = 2
          \/ op' \in {"mouseMove", "mouseUp"} /\ canvas.isPanning )
        /\ ~canvas.isDragging /\ ~canvas.isResizing /\ ~canvas.isSelecting
        => SameData
      ]_vars

\* ---------------------------------------------------------------- C25
\* C25, as stated: in every state reached by wheel events, viewport resizes
\* and fit-to-view calls the zoom scale is a number from 0.1 to 5.0, and a
\* wheel event multiplies the scale by its factor (0.9 or 1.1) and clamps the
\* product to that range.
C25_ScaleInRange ==
    [][ /\ canvas'.scale # NaN
        /\ ~RatLess(canvas'.scale, Rat(1, 10)) /\ ~RatLess(Rat(5, 1), canvas'.scale)
        /\ op' = "wheel" =>
              \E f \in {Rat(9, 10), Rat(11, 10)} :
                  LET q == RatTimes(canvas.scale, f)
                  IN  canvas'.scale = IF RatLess(q, Rat(1, 10)) THEN Rat(1, 10)
                                      ELSE IF RatLess(Rat(5, 1), q) THEN Rat(5, 1) ELSE q
      ]_vars

\* ---------------------------------------------------------------- C26
\* C26, as stated: a viewport resize leaves the pan offset as it is, so that
\* the world point at the middle of the viewport before resize() is still
\* there afterwards, whatever the pan before.
C26_ResizeKeepsCentre ==
    [][ op' = "resize" => canvas'.cameraOffset = canvas.cameraOffset ]_vars

\* ---------------------------------------------------------------- C27
\* C27, as stated: once a load for a path has failed, the asset is drawn as a
\* placeholder and no further load for that path is issued unless a user
\* event causes a render: a step that is not a user event leaves no more
\* loads of that path in flight than there were, less the one that settled.
C27_FailedLoadSettles ==
    [][ \A p \in run'.failed :
          /\ \A o \in DOMAIN objs : objs[o].assetPath = p => canvas'.drawn[o] = "placeholder"
          /\ op' # "render" =>
                run'.loading[p] <= run.loading[p] - (IF run'.settled = p THEN 1 ELSE 0)
      ]_vars

\* ---------------------------------------------------------------- C28
\* C28, as stated: switching the active scene while a gesture is in progress
\* resets the interaction state to idle: after the switch no mode flag is set
\* and the committed data of every scene is what it was, and a pointer move
\* that follows the switch modifies no object of the scene that was left.
C28_SwitchCancelsGesture ==
    [][ /\ (op' = "tabChange" /\ InGesture) =>
            /\ ~InGesture'
            /\ SceneValues(scenes', objs') = SceneValues(scenes, objs)
        /\ (op' = "mouseMove" /\ run.phase = "tab" /\ run.gesture) =>
            LET i == SceneIndex(scenes, run.from)
            IN  SceneValues(scenes', objs')[i] = SceneValues(scenes, objs)[i]
      ]_vars

\* the part of C28 about the data: the switch itself changes no scene
C28_SwitchKeepsData ==
    [][ op' = "tabChange" => SceneValues(scenes', objs') = SceneValues(scenes, objs) ]_vars

\* the second half alone: a pointer move right after a switch made during a
\* gesture leaves the objects of the scene that was left alone
C28_MoveAfterSwitch ==
    [][ (op' = "mouseMove" /\ run.phase = "tab" /\ run.gesture) =>
            LET i == SceneIndex(scenes, run.from)
            IN  SceneValues(scenes', objs')[i] = SceneValues(scenes, objs)[i]
      ]_vars

\* ---------------------------------------------------------------- C29
\* is |a - b| <= 2^k ?
Within(a, b, k) ==
    LET es == {x.e : x \in {y \in {a, b} : y.m # 0}}
        low == IF es = {} THEN 0 ELSE CHOOSE e \in es : \A f \in es : e <= f
        n == Abs((IF a.m = 0 THEN 0 ELSE a.m * 2^(a.e - low))
                 - (IF b.m = 0 THEN 0 ELSE b.m * 2^(b.e - low)))
    IN  \/ n = 0
        \/ k - low > 30
        \/ k - low >= 0 /\ n <= 2^(k - low)

\* k with |a| < 2^k
Magnitude(a) == IF a.m = 0 THEN -1000 ELSE a.e + MantissaBits

\* the tolerance of a round trip, as a power of two: 8 units in the last
\* place of the larger of the coordinate and the offset as seen from its side
Tolerance(coord, offset) == Max(Magnitude(coord), Magnitude(offset)) + 3 - MantissaBits

\* C29, as stated: screenToWorld and worldToScreen are mutual inverses: for
\* every offset, every scale in [0.1, 5.0] and every point, converting there
\* and back gives the point itself.
C29_Original ==
    run.phase \in {"world", "screen"} => run.back = run.p

\* C29, amended: converting there and back gives the point within a few
\* rounding errors: 8 units in the last place of the larger of the coordinate
\* and the offset (divided by the scale on the world side).
C29_InverseWithinEpsilon ==
    /\ run.phase = "world" =>
          /\ Within(run.back.x, run.p.x,
                    Tolerance(run.p.x, FDiv(canvas.offset.x, canvas.scale)))
          /\ Within(run.back.y, run.p.y,
                    Tolerance(run.p.y, FDiv(canvas.offset.y, canvas.scale)))
    /\ run.phase = "screen" =>
          /\ Within(run.back.x, run.p.x, Tolerance(run.p.x, canvas.offset.x))
          /\ Within(run.back.y, run.p.y, Tolerance(run.p.y, canvas.offset.y))

\* a round trip of a point with a coordinate other than 0 that rounding has
\* changed
C29_Witness ==
    /\ run.phase \in {"world", "screen"}
    /\ run.p.y.m # 0
    /\ run.back # run.p

\* ---------------------------------------------------------------- C30
\* C30: a primary-button pointer-down from idle starts exactly one gesture,
\* chosen in priority order: the resize when the point is on a handle of the
\* single selected object (the selection stays as it is, also when the point
\* is inside another object); otherwise select-and-drag of the object hit;
\* otherwise the marquee.
C30_GesturePriority ==
    [][ (op' = "mouseDown" /\ run'.button = 0 /\ ~InGesture) =>
          LET p == screenToWorld(run'.s)
              sel == canvas.selectedObjects
              onHandle == /\ Cardinality(sel) = 1
                          /\ \A o \in sel : getHandleAt(p, objs[o]) >= 0
              list == scenes[getActiveScene].gameObjects
              hit == \E i \in 1..Len(list) : isPointInObject(p, objs[list[i]])
          IN  /\ Cardinality(ActiveModes(canvas')) = 1
              /\ onHandle => canvas'.isResizing /\ canvas'.selectedObjects = sel
              /\ (~onHandle /\ hit) =>
                    /\ canvas'.isDragging
                    /\ \E o \in canvas'.selectedObjects : isPointInObject(p, objs[o])
              /\ (~onHandle /\ ~hit) => canvas'.isSelecting
      ]_vars

\* the first text object alone was selected when the primary button went down
\* on a point of its right edge handle that is inside the two other objects as
\* well: the resize has started and the selection is what it was
C30_Witness ==
    /\ op = "mouseDown" /\ run.button = 0 /\ run.s = W(45, 0)
    /\ canvas.selectedObjects = {0}
    /\ getHandleAt(screenToWorld(run.s), objs[0]) >= 0
    /\ \A o \in {1, 2} : isPointInObject(screenToWorld(run.s), objs[o])
    /\ ActiveModes(canvas) = {"resizing"}
    /\ canvas.resizeHandle = getHandleAt(screenToWorld(run.s), objs[0])

\* ---------------------------------------------------------------- C31
\* the position C31 proposes for a dragged object: the pointer's world point
\* less the offset of the press from the object's own position at the press
Proposed(o) ==
    Pt(run.world.x - (run.down.x - run.start[o].x),
       run.world.y - (run.down.y - run.start[o].y))

\* no grid line and no unselected object of the scene lies within the
\* threshold of p on either axis
NoSnapNear(p) ==
    /\ \A m \in GridLines : Abs(p.x - m) > snapThreshold /\ Abs(p.y - m) > snapThreshold
    /\ \A q \in DOMAIN objs \ canvas.selectedObjects :
          /\ Abs(p.x - objs[q].position.x) > snapThreshold
          /\ Abs(p.y - objs[q].position.y) > snapThreshold

\* C31, as stated: when the selected objects are dragged and no snap target
\* is within the threshold of any of their proposed positions, each object is
\* at its own proposed position, so the offsets between the selected objects
\* are those of the gesture start.
C31_DragKeepsOffsets ==
    (run.phase = "dragged" /\ \A o \in canvas.selectedObjects : NoSnapNear(Proposed(o))) =>
        /\ \A o \in canvas.selectedObjects : objs[o].position = Proposed(o)
        /\ \A o, q \in canvas.selectedObjects :
              /\ objs[o].position.x - objs[q].position.x = run.start[o].x - run.start[q].x
              /\ objs[o].position.y - objs[q].position.y = run.start[o].y - run.start[q].y

\* the same for a drag of a single selected object
C31_SingleDrag ==
    (/\ run.phase = "dragged" /\ Cardinality(canvas.selectedObjects) = 1
     /\ \A o \in canvas.selectedObjects : NoSnapNear(Proposed(o))) =>
        \A o \in canvas.selectedObjects : objs[o].position = Proposed(o)

\* ---------------------------------------------------------------- C32
\* C32: drag and resize results do not depend on the path of the pointer
\* within a gesture: after any sequence of moves every dragged object is
\* where a single move to the last pointer position puts it (the objects it
\* can snap to have not moved), and the resized object has the position and
\* scale that a single move to the last pointer position, with the same
\* modifiers, gives from the object as it was when the handle was grabbed.
C32_PathIndependent ==
    /\ run.phase = "dragged" =>
          /\ \A q \in DOMAIN objs \ canvas.selectedObjects : objs[q].position = run.start[q]
          /\ \A o \in canvas.selectedObjects :
                LET once == snapToGridAndObjects(run.world.x, run.world.y, o)
                IN  objs[o].position = Pt(once.x, once.y)
    /\ (run.phase = "resizing" /\ run.moves > 0) =>
          LET once == ResizeMove(run.initial, run.initial.position, run.initial.scale,
                                 run.handle, screenToWorld(run.s), run.altKey, run.shiftKey)
          IN  /\ objs[run.one].scale = once.scale
              /\ objs[run.one].position = once.position

\* a resize of at least two moves that has changed the size of the object
C32_Witness ==
    /\ run.phase = "resizing" /\ run.moves = 2
    /\ objs[run.one].scale # run.initial.scale
    /\ objs[run.one].position # run.initial.position

\* ---------------------------------------------------------------- C33
\* twice the width and height the resized object had when the handle was
\* grabbed
InitialSize2 == Size2([Resized EXCEPT !.scale = canvas.initialScale])

\* the box of the resized object has the proportions it had at the grab
SameProportions ==
    Size2(Resized).width * InitialSize2.height = Size2(Resized).height * InitialSize2.width

C34_Original ==
    (run.phase = "resizing" /\ run.moved) =>
        /\ run.handle \in {5, 7} => Resized.scale.y = canvas.initialScale.y
        /\ run.handle \in {4, 6} => Resized.scale.x = canvas.initialScale.x

\* C34, amended: the same for every gesture whose other side is at least the
\* minimum size when the handle is grabbed; a shorter one is set to the
\* minimum size by the first move.
C34_EdgeKeepsOtherAxis ==
    (run.phase = "resizing" /\ run.moved) =>
        /\ run.handle \in {5, 7} =>
              IF InitialSize2.height >= 2 * minSize
              THEN Resized.scale.y = canvas.initialScale.y
              ELSE Size2(Resized).height = 2 * minSize
        /\ run.handle \in {4, 6} =>
              IF InitialSize2.width >= 2 * minSize
              THEN Resized.scale.x = canvas.initialScale.x
              ELSE Size2(Resized).width = 2 * minSize

\* the right or left handle of an object at least 5 units high was moved: the
\* width has changed and scale.y is what it was
C34_Witness ==
    /\ run.phase = "resizing" /\ run.moved /\ run.handle \in {5, 7}
    /\ InitialSize2.height >= 2 * minSize
    /\ Resized.scale.x # canvas.initialScale.x
    /\ Resized.scale.y = canvas.initialScale.y

\* ------------------------------------ SceneSpec: scenes, tabs and history
\* run holds the TabBar: the ids of its tabs in order, and activeTabId (-1 for
\* null)
MaxSceneEvents == 4

\* what project:get-current can answer: no project, an opened project
\* (deserializeProject gives it no scenes), a created project (one default
\* scene), a project with two scenes
Projects ==
    { <<>>,
      << [id |-> 0, layers |-> defaultLayers, gameObjects |-> <<>>] >>,
      << [id |-> 0, layers |-> defaultLayers, gameObjects |-> <<>>],
         [id |-> 1, layers |-> defaultLayers, gameObjects |-> <<>>] >> }

\* `${Date.now()}`: a new id, later than every earlier one
DateNow == clock + 2

\* the tab bar showing the scene list sc with the tab of `active` active
TabBarOf(sc, active) ==
    [phase |-> "tabBar",
     tabs |-> [i \in 1..Len(sc) |-> sc[i].id],
     activeTabId |-> IF Len(sc) = 0 THEN -1 ELSE active]

\* the module has been loaded and DOMContentLoaded has made the canvas and an
\* empty tab bar; the handler waits for initializeEditor()
SceneInit ==
    /\ scenes = <<>>
    /\ objs = <<>>
    /\ activeSceneId = -1
    /\ canvas = NewCanvas
    /\ panelObj = NoObj
    /\ undoStack = <<>>
    /\ redoStack = <<>>
    /\ ret = NoState
    /\ clock = 0
    /\ live = [ref |-> 0, scenes |-> <<>>]
    /\ op = "init"
    /\ budget = MaxSceneEvents
    /\ run = TabBarOf(<<>>, -1)
    /\ scen = NoScen

\* initializeEditor() got a project: setProject clears the scene map and the
\* history (both are empty here), adds a tab per scene, activates the first
\* tab and saves the first history state
SSetProject ==
    /\ op = "init"
    /\ \E list \in Projects :
          LET active == IF Len(list) > 0 THEN list[1].id ELSE activeSceneId
          IN  /\ Editor(list, objs, active, canvas, panelObj)
              /\ saveHistoryState(list, objs)
              /\ run' = TabBarOf(list, active)
    /\ op' = "setProject"
    /\ UNCHANGED <<live, budget, scen>>

\* initializeEditor() got no project and only warns
SNoProject ==
    /\ op = "init"
    /\ op' = "noProject"
    /\ UNCHANGED <<edVars, histVars, live, budget, run, scen>>

\* addNewScene(): a new scene in the map, its tab added and activated
\* (onTabChange sets activeSceneId), the state saved
addNewScene ==
    LET newScene == [id |-> DateNow, layers |-> defaultLayers, gameObjects |-> <<>>]
        sc == Append(scenes, newScene)
    IN  /\ Editor(sc, objs, DateNow, canvas, panelObj)
        /\ run' = TabBarOf(sc, DateNow)
        /\ saveHistoryState(sc, objs)

\* the rest of the DOMContentLoaded handler: a first scene when there is none,
\* otherwise the initial history state
SFinishInit ==
    /\ op \in {"setProject", "noProject"}
    /\ IF Len(scenes) = 0
       THEN addNewScene
       ELSE /\ saveHistoryState(scenes, objs)
            /\ UNCHANGED <<edVars, run>>
    /\ op' = "initialised"
    /\ UNCHANGED <<live, budget, scen>>

Initialised == op \notin {"init", "setProject", "noProject"}

\* the + button of the tab bar
SAddScene ==
    /\ Initialised
    /\ Spend
    /\ addNewScene
    /\ op' = "addScene"
    /\ UNCHANGED <<live, scen>>

\* the close button of a tab: refused for the last scene; otherwise the scene
\* is deleted, removeTab activates the first remaining tab when the active
\* one went, and the state is saved
SCloseTab ==
    /\ Initialised
    /\ Spend
    /\ \E t \in 1..Len(run.tabs) :
          LET sceneId == run.tabs[t]
              sc == SelectSeq(scenes, LAMBDA s : s.id # sceneId)
              active == IF run.activeTabId = sceneId THEN sc[1].id ELSE activeSceneId
          IN  IF Len(scenes) <= 1
              THEN UNCHANGED <<edVars, histVars, run>>
              ELSE /\ Editor(sc, objs, active, canvas, panelObj)
                   /\ run' = TabBarOf(sc, active)
                   /\ saveHistoryState(sc, objs)
    /\ op' = "closeTab"
    /\ UNCHANGED <<live, scen>>

\* a click on a tab: setActiveTab returns for the active tab, otherwise
\* onTabChange sets activeSceneId
STabChange ==
    /\ Initialised
    /\ Spend
    /\ \E t \in 1..Len(run.tabs) :
          LET sceneId == run.tabs[t]
          IN  IF run.activeTabId = sceneId
              THEN UNCHANGED <<edVars, run>>
              ELSE /\ Editor(scenes, objs, sceneId, canvas, panelObj)
                   /\ run' = [run EXCEPT !.activeTabId = sceneId]
    /\ op' = "tabChange"
    /\ UNCHANGED <<histVars, live, scen>>

\* Ctrl+Z: applyHistoryState removes all tabs and adds one per scene of the
\* state
SUndo ==
    /\ Initialised
    /\ Spend
    /\ performUndo
    /\ run' = IF canUndo THEN TabBarOf(scenes', activeSceneId') ELSE run
    /\ op' = "undo"
    /\ UNCHANGED <<live, scen>>

SRedo ==
    /\ Initialised
    /\ Spend
    /\ performRedo
    /\ run' = IF canRedo THEN TabBarOf(scenes', activeSceneId') ELSE run
    /\ op' = "redo"
    /\ UNCHANGED <<live, scen>>

SceneNext ==
    \/ SSetProject
    \/ SNoProject
    \/ SFinishInit
    \/ SAddScene
    \/ SCloseTab
    \/ STabChange
    \/ SUndo
    \/ SRedo

SceneSpec == SceneInit /\ [][SceneNext]_vars

\* ----------------------------------- SaveSpec: edits, saves and autosave
\* run holds hasUnsavedChanges (flag), the save that is in flight (stage
\* "none" when there is none) and the scenes the project files hold (saved).
\* The model follows one save at a time.
MaxSaveEvents == 5

NoSave == [stage |-> "none", content |-> <<>>, detached |-> FALSE]

\* the editor after DOMContentLoaded with a created project of one empty
\* scene: setProject and the handler have each saved a history state and
\* marked the project as changed; the files hold the project as it was read
SaveInit ==
    LET list == << [id |-> 0, layers |-> defaultLayers, gameObjects |-> <<>>] >>
    IN  /\ scenes = list
        /\ objs = <<>>
        /\ activeSceneId = 0
        /\ canvas = NewCanvas
        /\ panelObj = NoObj
        /\ undoStack = << [ref |-> 1, scenes |-> list, timestamp |-> 0],
                          [ref |-> 2, scenes |-> list, timestamp |-> 1] >>
        /\ redoStack = <<>>
        /\ ret = NoState
        /\ clock = 2
        /\ live = [ref |-> 0, scenes |-> <<>>]
        /\ op = "init"
        /\ budget = MaxSaveEvents
        /\ run = [flag |-> TRUE, inflight |-> NoSave, saved |-> list]
        /\ scen = NoScen

\* currentProject.scenes = Array.from(scenes.values()), then the first await:
\* the save holds the live scene objects until it writes them
StartSave ==
    [run EXCEPT !.inflight = [stage |-> "started", content |-> SceneValues(scenes, objs),
                              detached |-> FALSE]]

\* what a started save will write after the handlers changed the editor to
\* (sc, ob): the scenes it holds are the live ones until undo or redo
\* replaces the scene map with copies
Held(r, sc, ob, replaced) ==
    IF r.inflight.stage # "started" THEN r
    ELSE IF replaced THEN [r EXCEPT !.inflight.detached = TRUE]
    ELSE IF r.inflight.detached THEN r
    ELSE [r EXCEPT !.inflight.content = SceneValues(sc, ob)]

\* the add text display button: the object is pushed into the active scene
\* and saveHistoryState() ends in markAsChanged()
VAddTextDisplay ==
    /\ Spend
    /\ onAddTextDisplay
    /\ run' = [Held(run, scenes', objs', FALSE) EXCEPT !.flag = (getActiveScene # 0) \/ @]
    /\ op' = "addTextDisplay"
    /\ UNCHANGED <<live, scen>>

\* Ctrl+Z and Ctrl+Shift+Z: applyHistoryState does not mark anything
VUndo ==
    /\ Spend
    /\ performUndo
    /\ run' = Held(run, scenes', objs', canUndo)
    /\ op' = "undo"
    /\ UNCHANGED <<live, scen>>

VRedo ==
    /\ Spend
    /\ performRedo
    /\ run' = Held(run, scenes', objs', canRedo)
    /\ op' = "redo"
    /\ UNCHANGED <<live, scen>>

\* Ctrl+S or the save button: saveProject() up to its first await
VSaveProject ==
    /\ run.inflight.stage = "none"
    /\ Spend
    /\ run' = StartSave
    /\ op' = "saveProject"
    /\ UNCHANGED <<edVars, histVars, live, scen>>

\* a tick of the autosave interval: nothing without unsaved changes
VAutoSaveTick ==
    /\ run.inflight.stage = "none"
    /\ Spend
    /\ run' = IF run.flag THEN StartSave ELSE run
    /\ op' = "autoSaveTick"
    /\ UNCHANGED <<edVars, histVars, live, scen>>

\* projectManager.saveProject stringifies the scenes it holds and sends them
\* to the main process
VWrite ==
    /\ run.inflight.stage = "started"
    /\ run' = [run EXCEPT !.inflight.stage = "written"]
    /\ op' = "write"
    /\ UNCHANGED <<edVars, histVars, live, budget, scen>>

\* the writes are answered: on success the flag is cleared, on failure the
\* catch block only reports
VSaveSettles ==
    /\ run.inflight.stage = "written"
    /\ \E ok \in BOOLEAN :
          /\ run' = IF ok THEN [flag |-> FALSE, inflight |-> NoSave,
                               saved |-> run.inflight.content]
                    ELSE [run EXCEPT !.inflight = NoSave]
          /\ op' = IF ok THEN "saved" ELSE "saveFailed"
    /\ UNCHANGED <<edVars, histVars, live, budget, scen>>

SaveNext ==
    \/ VAddTextDisplay
    \/ VUndo
    \/ VRedo
    \/ VSaveProject
    \/ VAutoSaveTick
    \/ VWrite
    \/ VSaveSettles

SaveSpec == SaveInit /\ [][SaveNext]_vars

\* ---------------------------------------------------------------- C35
\* C35, as stated: in every reachable state each object of the selection is,
\* by reference, a member of the active scene's object collection.
C35_SelectionInActiveScene ==
    \A o \in canvas.selectedObjects :
        /\ getActiveScene # 0
        /\ \E i \in 1..Len(scenes[getActiveScene].gameObjects) :
              scenes[getActiveScene].gameObjects[i] = o

\* the same for the steps of the canvas alone: pointer events and the Delete
\* key leave the selection inside the active scene
C35_CanvasKeepsSelectionInScene ==
    [][ op' \in {"mouseDown", "mouseMove", "mouseUp", "keyDelete"} =>
          (C35_SelectionInActiveScene => C35_SelectionInActiveScene') ]_vars

\* ---------------------------------------------------------------- C36
\* C36, as stated: once the editor has initialised, through add scene, close
\* tab, tab switch, undo and redo, the scene map is non-empty and the active
\* scene id names a scene in it (getActiveScene() is never null).
C36_OneActiveScene ==
    Initialised => Len(scenes) > 0 /\ getActiveScene # 0

\* the handlers other than undo and redo keep a scene active
C36_EditsKeepActiveScene ==
    [][ op' \in {"addScene", "closeTab", "tabChange"} =>
          (C36_OneActiveScene => C36_OneActiveScene') ]_vars

\* ---------------------------------------------------------------- C37
\* C37, as stated: when the editor finishes initialising, with or without a
\* project, the undo stack holds exactly one entry and canUndo() is false.
C37_OneInitialState ==
    op = "initialised" => Len(undoStack) = 1 /\ ~canUndo

\* without a project it does
C37_NoProjectOneState ==
    [][ op = "noProject" /\ op' = "initialised" => Len(undoStack') = 1 ]_vars

\* ---------------------------------------------------------------- C38
\* C38, as stated: each coordinate the snapping step returns differs from the
\* proposed coordinate by less than the 10-unit threshold, whatever the
\* number and order of the candidate objects.
C38_SnapWithinThreshold ==
    run.phase = "dragged" =>
        \A o \in canvas.selectedObjects :
            /\ Abs(objs[o].position.x - run.target.x) < snapThreshold
            /\ Abs(objs[o].position.y - run.target.y) < snapThreshold

\* with no other snap candidate in the scene the grid alone moves a
\* coordinate by less than the threshold
C38_GridWithinThreshold ==
    (run.phase = "dragged" /\ SnapCandidates = {}) =>
        \A o \in canvas.selectedObjects :
            /\ Abs(objs[o].position.x - run.target.x) < snapThreshold
            /\ Abs(objs[o].position.y - run.target.y) < snapThreshold

\* ---------------------------------------------------------------- C39
\* C39, as stated: at any time at most one load is in flight for an image
\* path, however many renders happen while it is pending, and once a load of
\* a path has succeeded no further load of that path is issued.
C39_OneLoadInFlight ==
    /\ \A p \in ImagePaths : run.loading[p] <= 1
    /\ \A p \in canvas.imageCache : Requested(canvas.imageCache)[p] = 0

\* the second half alone: no step starts a load of a path whose texture is
\* in the cache
C39_NoLoadAfterSuccess ==
    [][ \A p \in canvas.imageCache : run'.loading[p] <= run.loading[p] ]_vars

\* ---------------------------------------------------------------- C40
\* C40, as stated: the unsaved-changes flag is false only when the live
\* scene list equals the content captured by the most recent successful
\* save, for every interleaving of commits, undo and redo with manual saves
\* and autosave ticks.
C40_FlagMeansSaved ==
    ~run.flag => SceneValues(scenes, objs) = run.saved

\* a commit by itself marks the project as changed
C40_CommitMarksChanged ==
    [][ op' = "addTextDisplay" => run'.flag ]_vars

====
